---- MODULE Spec2Model ----
(***************************************************************************)
(* Home Fur Good: discovery and ranking pipeline.                          *)
(*                                                                         *)
(*   backend/routes/dogs.js        normalizeBreed, getBreedTokens,         *)
(*                                 GET /dogs (local breed filter)          *)
(*   frontend/src/pages/Welcome    loadSpotlight (least-favorited ranking) *)
(*   backend/helpers/rescueGroups  searchAvailableDogs, getDogById         *)
(*   backend/routes/dogs.js        GET /dogs/:id                           *)
(*   frontend/src/pages/DogDetail  description handling                    *)
(*   backend/routes/favorites.js   POST /favorites, DELETE /favorites      *)
(*   frontend/src/App.jsx          RequireAuth and the route table         *)
(*                                                                         *)
(* A JavaScript string is a sequence of one-character strings, so that     *)
(* the text conversions are computed character by character.               *)
(***************************************************************************)
EXTENDS Integers, Sequences, FiniteSets, TLC

VARIABLES
    nbIn,           \* normalizeBreed: the argument str
    nbOut,          \* normalizeBreed(str)
    nbAgain,        \* normalizeBreed(normalizeBreed(str))
    nbPc,           \* "in" | "once" | "twice"
    API_KEY,        \* process.env.RESCUEGROUPS_API_KEY is set
    query,          \* req.query of GET /dogs
    rgData,         \* data.data of the registry's search response
    httpRes,        \* response of GET /dogs
    reqPc,          \* "request" | "responded"
    zipcode,        \* user.zipcode of the logged-in user
    pc,             \* position of loadSpotlight
    searchPending,  \* searchDogs() is in flight
    countsPending,  \* getFavoriteCountsPublic() is in flight
    dogPending,     \* number of getDog() calls in flight
    results,        \* resolved value of searchDogs(): <<>> or <<dogs>>
    counts,         \* resolved value of getFavoriteCountsPublic(): <<>> or <<object>>
    top,            \* const top (global branch)
    dogs,           \* const dogs (global branch)
    spotlightDogs,  \* React state spotlightDogs
    searchCalls,    \* arguments of the searchDogs() calls of this selection
    countsCalls,    \* number of getFavoriteCountsPublic() calls
    getDogCalls,    \* arguments of the getDog() calls
    failed,         \* a sub-call of this selection rejected
    raised,         \* loadSpotlight() rejected to its caller
    axiosStatus,    \* the installed axios sets AxiosError.status
    rgCall,         \* the registry call being served
    rgPc,           \* "idle" | "awaitPost" | "awaitGet" | "responded" | "rendered"
    rgRequest,      \* outbound request of this call: <<>> or <<request>>
    rgSent,         \* number of outbound requests issued by this process
    rgAnswer,       \* status the registry answered with, NoStatus for none
    rgOut,          \* what the helper returned or threw to its caller
    rgRes,          \* response of the backend route
    rgDone,         \* number of calls this process has finished
    rgOks,          \* number of calls this process has answered with 200
    detailView,     \* DogDetail after getDog(id) settled
    favorites,      \* rows of the favorites table
    favRes,         \* response of the last favorites request
    favReq,         \* the last favorites request
    favBefore,      \* rows of the table when the last request arrived
    favPrev,        \* the request before the last, and its response
    favCount,       \* number of favorites requests served
    user,           \* AuthContext user
    location,       \* router location.pathname
    locationFrom,   \* router location.state.from
    element,        \* what the matched route renders
    logoutTimer,    \* handleLogout's setTimeout is pending
    dbUsers,        \* rows of the users table, by username
    aePc,           \* AdminEditUser: "off" | "loading" | "form"
    aeUsername,     \* AdminEditUser: useParams().username
    aeForm,         \* AdminEditUser: the form state
    aeLast,         \* the last PATCH /admin/users/:username and its answer
    aeCount,        \* number of PATCH /admin/users/:username served
    srUrl,          \* SearchResults: the parameters of the query string
    srDeps,         \* SearchResults: dependencies of the last effect run
    srPc,           \* SearchResults: "off" | "mounted" | "left"
    srSeq,          \* number of searchDogs() calls started
    srPending,      \* searchDogs() calls in flight
    srLatest,       \* the searchDogs() call started last
    srDogs,         \* SearchResults: the dogs state
    srLoading,      \* SearchResults: the loading state
    srError,        \* SearchResults: the error state is set
    srChanges,      \* number of URL changes so far
    authReq,        \* the last /auth request
    authRes,        \* the response to it
    authBefore,     \* the tables when it arrived
    authCount,      \* number of /auth requests served
    fcRes,          \* the last response of GET /favorites
    cFavs,          \* AuthContext favorites
    cLoads,         \* loadUserFavorites() calls in flight
    cToggles,       \* toggleFavorite() calls in flight
    cSeq,           \* number of favorites requests the client started
    cLast,          \* the toggle the backend applied last
    cSeen,          \* the usernames that have been logged in
    cOverlap,       \* dog ids clicked while a toggle of theirs was in flight
    wlZip,          \* Welcome: user.zipcode
    wlPc,           \* Welcome: "off" | "mounted"
    wlSeq,          \* number of loadSpotlight() calls started
    wlLoads,        \* loadSpotlight() calls in flight
    wlLatest,       \* the loadSpotlight() call started last
    wlSpot,         \* Welcome: the spotlightDogs state
    wlSet,          \* what each finished load has set, by call
    wlChanges       \* number of zipcode changes so far

nbVars == <<nbIn, nbOut, nbAgain, nbPc>>
searchVars == <<API_KEY, query, rgData, httpRes, reqPc>>
spotVars == <<zipcode, pc, searchPending, countsPending, dogPending, results,
              counts, top, dogs, spotlightDogs, searchCalls, countsCalls,
              getDogCalls, failed, raised>>
regVars == <<axiosStatus, rgCall, rgPc, rgRequest, rgSent, rgAnswer, rgOut,
             rgRes, rgDone, rgOks, detailView>>
favVars == <<favorites, favRes, favReq, favBefore, favPrev, favCount>>
routeVars == <<user, location, locationFrom, element, logoutTimer>>
editVars == <<dbUsers, aePc, aeUsername, aeForm, aeLast, aeCount>>
resultsVars == <<srUrl, srDeps, srPc, srSeq, srPending, srLatest, srDogs,
                 srLoading, srError, srChanges>>
authVars == <<authReq, authRes, authBefore, authCount>>
countVars == <<fcRes>>
clientVars == <<cFavs, cLoads, cToggles, cSeq, cLast, cSeen, cOverlap>>
welcomeVars == <<wlZip, wlPc, wlSeq, wlLoads, wlLatest, wlSpot, wlSet,
                 wlChanges>>
tailVars == <<countVars, clientVars, welcomeVars>>
appVars == <<editVars, resultsVars, authVars, tailVars>>
restVars == <<regVars, favVars, routeVars, appVars>>
vars == <<nbVars, searchVars, spotVars, restVars>>

\* ------------------------------------------------------------------------
\* Bounds
\* ------------------------------------------------------------------------
MaxNormLen == 6     \* longest argument of normalizeBreed that is enumerated
MaxSelLen == 3      \* longest enumerated breed selector
MaxCandLen == 4     \* longest enumerated candidate breed string
MaxBreeds == 2      \* most selected breeds in one query
MaxAnimals == 2     \* most animals in one registry response
MaxCount == 2       \* largest favorite count of one dog

\* ------------------------------------------------------------------------
\* JavaScript string primitives
\* ------------------------------------------------------------------------
Min(a, b) == IF a < b THEN a ELSE b

\* all strings over the alphabet A of length at most n
StringsUpTo(A, n) == UNION {[1..k -> A] : k \in 0..n}

\* String.prototype.toLowerCase, per character
UpperToLower ==
    [A |-> "a", B |-> "b", C |-> "c", D |-> "d", E |-> "e", F |-> "f",
     G |-> "g", H |-> "h", I |-> "i", J |-> "j", K |-> "k", L |-> "l",
     M |-> "m", N |-> "n", O |-> "o", P |-> "p", Q |-> "q", R |-> "r",
     S |-> "s", T |-> "t", U |-> "u", V |-> "v", W |-> "w", X |-> "x",
     Y |-> "y", Z |-> "z"]

toLowerCase(s) ==
    [i \in 1..Len(s) |->
        IF s[i] \in DOMAIN UpperToLower THEN UpperToLower[s[i]] ELSE s[i]]

\* the regular expression class \s, and what String.prototype.trim strips
IsSpace(ch) == ch \in {" ", "\t", "\n", "\r"}

\* the word w stands in s at position i
HasAt(s, i, w) ==
    /\ i + Len(w) - 1 <= Len(s)
    /\ \A k \in 1..Len(w) : s[i + k - 1] = w[k]

\* String.prototype.includes
includes(s, t) == \E i \in 1..(Len(s) + 1) : HasAt(s, i, t)

\* .replace(/mix(ed)?/g, ""): left to right, non-overlapping, "ed" greedy
RECURSIVE replaceMixed(_, _)
replaceMixed(s, i) ==
    IF i > Len(s) THEN <<>>
    ELSE IF HasAt(s, i, <<"m", "i", "x">>)
         THEN IF HasAt(s, i + 3, <<"e", "d">>)
              THEN replaceMixed(s, i + 5)
              ELSE replaceMixed(s, i + 3)
         ELSE <<s[i]>> \o replaceMixed(s, i + 1)

\* .replace(/dog/g, "")
RECURSIVE replaceDog(_, _)
replaceDog(s, i) ==
    IF i > Len(s) THEN <<>>
    ELSE IF HasAt(s, i, <<"d", "o", "g">>)
         THEN replaceDog(s, i + 3)
         ELSE <<s[i]>> \o replaceDog(s, i + 1)

\* .replace(/[\/,&()-]/g, " ")
replacePunctuation(s) ==
    [i \in 1..Len(s) |->
        IF s[i] \in {"/", ",", "&", "(", ")", "-"} THEN " " ELSE s[i]]

\* .replace(/\s+/g, " "): every maximal run of white space becomes one space
RECURSIVE collapseSpaces(_, _)
collapseSpaces(s, i) ==
    IF i > Len(s) THEN <<>>
    ELSE IF IsSpace(s[i])
         THEN IF i > 1 /\ IsSpace(s[i - 1])
              THEN collapseSpaces(s, i + 1)
              ELSE <<" ">> \o collapseSpaces(s, i + 1)
         ELSE <<s[i]>> \o collapseSpaces(s, i + 1)

\* String.prototype.trim
RECURSIVE trimStart(_)
trimStart(s) ==
    IF s # <<>> /\ IsSpace(Head(s)) THEN trimStart(Tail(s)) ELSE s

RECURSIVE trimEnd(_)
trimEnd(s) ==
    IF s # <<>> /\ IsSpace(s[Len(s)])
    THEN trimEnd(SubSeq(s, 1, Len(s) - 1))
    ELSE s

trim(s) == trimEnd(trimStart(s))

\* String.prototype.split(" "): the pieces between single spaces, empty
\* pieces included ("".split(" ") is [""])
RECURSIVE splitFrom(_, _, _)
splitFrom(s, i, piece) ==
    IF i > Len(s) THEN <<piece>>
    ELSE IF s[i] = " "
         THEN <<piece>> \o splitFrom(s, i + 1, <<>>)
         ELSE splitFrom(s, i + 1, Append(piece, s[i]))

split(s) == splitFrom(s, 1, <<>>)

\* ------------------------------------------------------------------------
\* backend/routes/dogs.js: breed matching
\* ------------------------------------------------------------------------
normalizeBreed(str) ==
    trim(collapseSpaces(replacePunctuation(
        replaceDog(replaceMixed(toLowerCase(str), 1), 1)), 1))

\* getBreedTokens keeping words of two characters as well
getBreedTokensShort(sel) ==
    SelectSeq(split(normalizeBreed(sel)), LAMBDA w : Len(w) >= 2)

getBreedTokens(sel) ==
    SelectSeq(split(normalizeBreed(sel)), LAMBDA w : Len(w) >= 3)

\* a query parameter is undefined, one string, or an array of strings
Undefined == [kind |-> "undefined"]
OneString(s) == [kind |-> "string", val |-> s]
AnArray(a) == [kind |-> "array", val |-> a]

toArray(val) ==
    IF val.kind = "undefined" THEN <<>>
    ELSE IF val.kind = "array" THEN val.val
    ELSE <<val.val>>

\* step 3 of GET /dogs: the registry records in the route's own shape
\* (of the mapped fields, id and breedString are kept)
mapDogs(data) ==
    [i \in 1..Len(data) |->
        [id |-> data[i].id,
         breedString |->
            IF "breedString" \in DOMAIN data[i].attributes
            THEN data[i].attributes.breedString
            ELSE <<>>]]

\* the filter callback of step 4
breedFilter(d, breedTokenSets) ==
    LET dogNorm == normalizeBreed(d.breedString)
    IN  IF dogNorm = <<>> THEN FALSE
        ELSE \E k \in 1..Len(breedTokenSets) :
                \E j \in 1..Len(breedTokenSets[k]) :
                    includes(dogNorm, breedTokenSets[k][j])

\* steps 2 to 4 of GET /dogs in which every selected breed must match
filterDogsAll(q, data) ==
    LET breedsFilter == toArray(q.breeds)
        breedTokenSets ==
            [k \in 1..Len(breedsFilter) |-> getBreedTokens(breedsFilter[k])]
        all == mapDogs(data)
    IN  IF Len(breedsFilter) > 0
        THEN SelectSeq(all, LAMBDA d :
                 \A k \in 1..Len(breedTokenSets) :
                     breedFilter(d, <<breedTokenSets[k]>>))
        ELSE all

\* steps 2 to 4 of GET /dogs
filterDogs(q, data) ==
    LET breedsFilter == toArray(q.breeds)
        hasBreedFilter == Len(breedsFilter) > 0
        breedTokenSets ==
            [k \in 1..Len(breedsFilter) |-> getBreedTokens(breedsFilter[k])]
        all == mapDogs(data)
    IN  IF hasBreedFilter
        THEN SelectSeq(all, LAMBDA d : breedFilter(d, breedTokenSets))
        ELSE all

\* what awaiting searchAvailableDogs(req.query) can give: the registry's
\* data, or a thrown { status } (500 when the registry reported none)
NoStatus == 0
RegistryStatuses == {NoStatus, 429}

searchAvailableDogsOutcomes(data) ==
    IF ~API_KEY
    THEN {[ok |-> FALSE, status |-> 500]}
    ELSE {[ok |-> TRUE, data |-> data]} \cup
         {[ok |-> FALSE, status |-> IF st # NoStatus THEN st ELSE 500] :
              st \in RegistryStatuses}

\* errorHandler: the status of the error, or 500
errorHandler(err) ==
    [status |-> IF err.status # NoStatus THEN err.status ELSE 500]

\* router.get("/", ...)
GetDogs ==
    /\ reqPc = "request"
    /\ \E out \in searchAvailableDogsOutcomes(rgData) :
          httpRes' =
              IF out.ok
              THEN LET ds == filterDogs(query, out.data)
                   IN  [status |-> 200, dogs |-> ds, page |-> 1,
                        total |-> Len(ds), countReturned |-> Len(ds),
                        pages |-> 1]
              ELSE errorHandler(out)
    /\ reqPc' = "responded"
    /\ UNCHANGED <<API_KEY, query, rgData>>
    /\ UNCHANGED <<nbVars, spotVars, restVars>>

\* normalizeBreed(str), and normalizeBreed applied to its own result
NormalizeOnce ==
    /\ nbPc = "in"
    /\ nbOut' = normalizeBreed(nbIn)
    /\ nbPc' = "once"
    /\ UNCHANGED <<nbIn, nbAgain>>
    /\ UNCHANGED <<searchVars, spotVars, restVars>>

NormalizeAgain ==
    /\ nbPc = "once"
    /\ nbAgain' = normalizeBreed(nbOut)
    /\ nbPc' = "twice"
    /\ UNCHANGED <<nbIn, nbOut>>
    /\ UNCHANGED <<searchVars, spotVars, restVars>>

\* ------------------------------------------------------------------------
\* Inputs
\* ------------------------------------------------------------------------
strBeagle == <<"B", "e", "a", "g", "l", "e">>
strBeagleMix == <<"B", "e", "a", "g", "l", "e", " ", "M", "i", "x">>
strPoodle == <<"P", "o", "o", "d", "l", "e">>
strGermanShepherdDog ==
    <<"G", "e", "r", "m", "a", "n", " ", "S", "h", "e", "p", "h", "e", "r",
      "d", " ", "D", "o", "g">>
strShepherdHuskyMix ==
    <<"G", "e", "r", "m", "a", "n", " ", "S", "h", "e", "p", "h", "e", "r",
      "d", " ", "/", " ", "H", "u", "s", "k", "y", " ", "M", "i", "x">>
strLabradorMix ==
    <<"L", "a", "b", "r", "a", "d", "o", "r", " ", "R", "e", "t", "r", "i",
      "e", "v", "e", "r", " ", "M", "i", "x">>
strMixedOnly == <<"M", "i", "x", "e", "d">>
strBlank == <<" ", "\t">>
strPugLab == <<"P", "u", "g", "/", "L", "a", "b">>

NormAlphabet == {"m", "i", "x", "d", "o", "g"}
BreedAlphabet == {"a", "b", "-"}
SelectorVocabulary ==
    {strBeagle, strGermanShepherdDog, strMixedOnly, strPugLab, <<>>}
CandidateVocabulary ==
    {strBeagleMix, strPoodle, strShepherdHuskyMix, strLabradorMix, strBlank}

\* a registry record with a breedString attribute, and one without
Animal(id, b) == [id |-> id, attributes |-> [breedString |-> b]]
AnimalNoBreed(id) == [id |-> id, attributes |-> [name |-> "Rex"]]

VocabularyQueries ==
    {[breeds |-> Undefined]} \cup
    {[breeds |-> OneString(s)] : s \in SelectorVocabulary} \cup
    {[breeds |-> AnArray(a)] :
        a \in UNION {[1..k -> SelectorVocabulary] : k \in 1..MaxBreeds}}

VocabularyAnimals(i) ==
    {Animal(i, b) : b \in CandidateVocabulary} \cup {AnimalNoBreed(i)}

VocabularyData ==
    UNION {{f \in [1..k -> UNION {VocabularyAnimals(i) : i \in 1..k}] :
               \A i \in 1..k : f[i].id = i} :
           k \in 0..MaxAnimals}

NbIdle == nbIn = <<>> /\ nbOut = <<>> /\ nbAgain = <<>> /\ nbPc = "off"
SearchIdle ==
    /\ API_KEY = TRUE
    /\ query = [breeds |-> Undefined]
    /\ rgData = <<>>
    /\ httpRes = [status |-> 0]
    /\ reqPc = "off"

\* ------------------------------------------------------------------------
\* JavaScript arrays and objects
\* ------------------------------------------------------------------------
\* An object is the sequence of its [key, value] properties in the order
\* they were created; its keys are distinct.
HasKey(obj, k) == \E i \in 1..Len(obj) : obj[i].key = k
Get(obj, k) == (CHOOSE i \in 1..Len(obj) : obj[i].key = k)
Lookup(obj, k) == obj[Get(obj, k)].value

\* the dog ids in use; "9" and "10" are array-index keys, "a" and "b" are not
DogIds == {"9", "10", "a", "b"}
NumericValue == ("9" :> 9) @@ ("10" :> 10)
IsArrayIndex(k) == k \in DOMAIN NumericValue

\* Array.prototype.sort with a comparator keys[a] - keys[b]: stable.
\* sortedIndices(keys, n) is the order in which 1..n come out.
RECURSIVE insertStable(_, _, _)
insertStable(sorted, i, keys) ==
    IF sorted = <<>> THEN <<i>>
    ELSE IF keys[Head(sorted)] <= keys[i]
         THEN <<Head(sorted)>> \o insertStable(Tail(sorted), i, keys)
         ELSE <<i>> \o sorted

RECURSIVE sortedIndices(_, _)
sortedIndices(keys, n) ==
    IF n = 0 THEN <<>>
    ELSE insertStable(sortedIndices(keys, n - 1), n, keys)

\* a sort with the comparator reversed, keys[b] - keys[a]
sortDescending(arr, keys) ==
    LET asc == sortedIndices([i \in 1..Len(arr) |-> 0 - keys[i]], Len(arr))
    IN  [j \in 1..Len(arr) |-> arr[asc[j]]]

sort(arr, keys) ==
    LET order == sortedIndices(keys, Len(arr))
    IN  [j \in 1..Len(arr) |-> arr[order[j]]]

\* Array.prototype.slice(0, n)
slice(arr, n) == SubSeq(arr, 1, Min(n, Len(arr)))

\* Object.entries: array-index keys in ascending numeric order, then the
\* other keys in creation order
ObjectEntries(obj) ==
    LET idx == SelectSeq(obj, LAMBDA p : IsArrayIndex(p.key))
        str == SelectSeq(obj, LAMBDA p : ~IsArrayIndex(p.key))
        ord == sort(idx, [i \in 1..Len(idx) |-> NumericValue[idx[i].key]])
        all == ord \o str
    IN  [i \in 1..Len(all) |-> <<all[i].key, all[i].value>>]

\* ------------------------------------------------------------------------
\* frontend/src/pages/Welcome.jsx: loadSpotlight
\* ------------------------------------------------------------------------
NoZip == "undefined"
Zipcodes == {NoZip, "", "01938"}
SpotlightSize == 3

\* hasZip that takes any defined zipcode, the empty one included
hasZipDefined(zip) == zip # NoZip

\* const hasZip = Boolean(user?.zipcode)
hasZip(zip) == zip # NoZip /\ zip # ""

\* withCounts that leaves out the dogs nobody has favorited
withCountsKnownOnly(ds, c) ==
    LET known == SelectSeq(ds, LAMBDA d : HasKey(c, d.id))
    IN  [i \in 1..Len(known) |->
            [id |-> known[i].id, favoriteCount |-> Lookup(c, known[i].id)]]

\* dogs.map((d) => ({ ...d, favoriteCount: counts[d.id] || 0 }))
withCounts(ds, c) ==
    [i \in 1..Len(ds) |->
        [id |-> ds[i].id,
         favoriteCount |->
            IF HasKey(c, ds[i].id) /\ Lookup(c, ds[i].id) # 0
            THEN Lookup(c, ds[i].id)
            ELSE 0]]

\* the located branch with the comparator reversed
leastNearYouDescending(ds, c) ==
    LET wc == withCounts(ds, c)
    IN  slice(sortDescending(wc, [i \in 1..Len(wc) |-> wc[i].favoriteCount]),
              SpotlightSize)

\* the located branch: sort by favoriteCount and keep the first three
leastNearYou(ds, c) ==
    LET wc == withCounts(ds, c)
    IN  slice(sort(wc, [i \in 1..Len(wc) |-> wc[i].favoriteCount]),
              SpotlightSize)

\* the global branch: entries.sort(...); const top = entries.slice(0, 3)
topEntries(c) ==
    LET entries == ObjectEntries(c)
    IN  slice(sort(entries, [i \in 1..Len(entries) |-> entries[i][2]]),
              SpotlightSize)

\* a catch block that shows the dogs fetched so far
catchKeepFetched == [spotlightDogs |-> dogs, raised |-> FALSE]

\* catch (err) { console.error(...); setSpotlightDogs([]); }
catch == [spotlightDogs |-> <<>>, raised |-> FALSE]

\* the getDog() calls to start when k of the top dogs have been fetched,
\* were the loop to start them all at once
nextFetchesAtOnce(t, k) ==
    IF k = 0 THEN [i \in 1..Len(t) |-> t[i][1]] ELSE <<>>

\* for (let [dogId, count] of top) { const dog = await getDog(dogId); ... }
\* the getDog() calls to start when k of the top dogs have been fetched
nextFetches(t, k) == IF k < Len(t) THEN <<t[k + 1][1]>> ELSE <<>>

\* what the two API calls can resolve to
MaxDogs == 4
DistinctSeqs(S, n) ==
    UNION {{f \in [1..k -> S] : \A i, j \in 1..k : f[i] = f[j] => i = j} :
           k \in 0..n}
SearchResponses ==
    {[i \in 1..Len(f) |-> [id |-> f[i]]] : f \in DistinctSeqs(DogIds, MaxDogs)}
CountObjects ==
    UNION {{[i \in 1..Len(f) |-> [key |-> f[i], value |-> v[i]]] :
               v \in [1..Len(f) -> 1..MaxCount]} :
           f \in DistinctSeqs(DogIds, Cardinality(DogIds))}

SpotIdle ==
    /\ zipcode = NoZip
    /\ pc = "off"
    /\ searchPending = FALSE
    /\ countsPending = FALSE
    /\ dogPending = 0
    /\ results = <<>>
    /\ counts = <<>>
    /\ top = <<>>
    /\ dogs = <<>>
    /\ spotlightDogs = <<>>
    /\ searchCalls = <<>>
    /\ countsCalls = 0
    /\ getDogCalls = <<>>
    /\ failed = FALSE
    /\ raised = FALSE

\* the effect runs loadSpotlight(): up to the first await
StartLoad ==
    /\ pc = "start"
    /\ IF hasZip(zipcode)
       THEN /\ searchCalls' = Append(searchCalls,
                   [zip |-> zipcode, miles |-> 50, hasPic |-> TRUE])
            /\ searchPending' = TRUE
            /\ pc' = "awaitAll"
       ELSE /\ UNCHANGED <<searchCalls, searchPending>>
            /\ pc' = "awaitCounts"
    /\ countsCalls' = countsCalls + 1
    /\ countsPending' = TRUE
    /\ UNCHANGED <<zipcode, dogPending, results, counts, top, dogs,
                   spotlightDogs, getDogCalls, failed, raised>>
    /\ UNCHANGED <<nbVars, searchVars, restVars>>

\* the catch block runs
Caught ==
    /\ spotlightDogs' = catch.spotlightDogs
    /\ raised' = catch.raised
    /\ failed' = TRUE
    /\ pc' = "done"

\* searchDogs() settles
SearchDogsSettles ==
    /\ searchPending
    /\ searchPending' = FALSE
    /\ \E out \in {[ok |-> FALSE]} \cup
                  {[ok |-> TRUE, dogs |-> r] : r \in SearchResponses} :
          IF pc = "awaitAll"
          THEN IF out.ok
               THEN /\ results' = <<out.dogs>>
                    /\ IF counts # <<>>
                       THEN /\ spotlightDogs' =
                                   leastNearYou(out.dogs, counts[1])
                            /\ pc' = "done"
                       ELSE UNCHANGED <<spotlightDogs, pc>>
                    /\ UNCHANGED <<failed, raised>>
               ELSE /\ Caught
                    /\ UNCHANGED results
          ELSE UNCHANGED <<results, spotlightDogs, pc, failed, raised>>
    /\ UNCHANGED <<zipcode, countsPending, dogPending, counts, top, dogs,
                   searchCalls, countsCalls, getDogCalls>>
    /\ UNCHANGED <<nbVars, searchVars, restVars>>

\* getFavoriteCountsPublic() settles
CountsSettles ==
    /\ countsPending
    /\ countsPending' = FALSE
    /\ \E out \in {[ok |-> FALSE]} \cup
                  {[ok |-> TRUE, counts |-> c] : c \in CountObjects} :
          IF pc = "awaitAll"
          THEN /\ IF out.ok
                  THEN /\ counts' = <<out.counts>>
                       /\ IF results # <<>>
                          THEN /\ spotlightDogs' =
                                      leastNearYou(results[1], out.counts)
                               /\ pc' = "done"
                          ELSE UNCHANGED <<spotlightDogs, pc>>
                       /\ UNCHANGED <<failed, raised>>
                  ELSE /\ Caught
                       /\ UNCHANGED counts
               /\ UNCHANGED <<top, dogs, getDogCalls, dogPending>>
          ELSE IF pc = "awaitCounts"
          THEN IF out.ok
               THEN /\ counts' = <<out.counts>>
                    /\ IF Len(ObjectEntries(out.counts)) = 0
                       THEN /\ spotlightDogs' = <<>>
                            /\ pc' = "done"
                            /\ UNCHANGED <<top, dogs, getDogCalls,
                                           dogPending>>
                       ELSE /\ top' = topEntries(out.counts)
                            /\ dogs' = <<>>
                            /\ getDogCalls' =
                                  getDogCalls \o nextFetches(top', 0)
                            /\ dogPending' =
                                  dogPending + Len(nextFetches(top', 0))
                            /\ pc' = "awaitDog"
                            /\ UNCHANGED spotlightDogs
                    /\ UNCHANGED <<failed, raised>>
               ELSE /\ Caught
                    /\ UNCHANGED <<counts, top, dogs, getDogCalls,
                                   dogPending>>
          ELSE UNCHANGED <<counts, top, dogs, getDogCalls, dogPending,
                           spotlightDogs, pc, failed, raised>>
    /\ UNCHANGED <<zipcode, searchPending, results, searchCalls,
                   countsCalls>>
    /\ UNCHANGED <<nbVars, searchVars, restVars>>

\* a getDog() settles
GetDogSettles ==
    /\ dogPending > 0
    /\ \E ok \in BOOLEAN :
          IF pc = "awaitDog"
          THEN IF ok
               THEN LET k == Len(dogs) + 1
                        fetched == Append(dogs,
                            [id |-> top[k][1], favoriteCount |-> top[k][2]])
                    IN  /\ dogs' = fetched
                        /\ getDogCalls' = getDogCalls \o nextFetches(top, k)
                        /\ dogPending' =
                              dogPending - 1 + Len(nextFetches(top, k))
                        /\ IF k < Len(top)
                           THEN UNCHANGED <<spotlightDogs, pc>>
                           ELSE /\ spotlightDogs' = fetched
                                /\ pc' = "done"
                        /\ UNCHANGED <<failed, raised>>
               ELSE /\ Caught
                    /\ dogPending' = dogPending - 1
                    /\ UNCHANGED <<dogs, getDogCalls>>
          ELSE /\ dogPending' = dogPending - 1
               /\ UNCHANGED <<dogs, getDogCalls, spotlightDogs, pc, failed,
                              raised>>
    /\ UNCHANGED <<zipcode, searchPending, countsPending, results, counts,
                   top, searchCalls, countsCalls>>
    /\ UNCHANGED <<nbVars, searchVars, restVars>>

\* ------------------------------------------------------------------------
\* The parts of the program a specification leaves at rest
\* ------------------------------------------------------------------------
RegIdle ==
    /\ axiosStatus = TRUE
    /\ rgCall = [kind |-> "none"]
    /\ rgPc = "off"
    /\ rgRequest = <<>>
    /\ rgSent = 0
    /\ rgAnswer = 0
    /\ rgOut = [kind |-> "none"]
    /\ rgRes = [status |-> 0]
    /\ rgDone = 0
    /\ rgOks = 0
    /\ detailView = [kind |-> "none"]

FavIdle ==
    /\ favorites = {}
    /\ favRes = [status |-> 0]
    /\ favReq = [kind |-> "none"]
    /\ favBefore = {}
    /\ favPrev = [req |-> [kind |-> "none"], res |-> [status |-> 0]]
    /\ favCount = 0

RouteIdle ==
    /\ user = <<>>
    /\ location = "/"
    /\ locationFrom = <<>>
    /\ element = "off"
    /\ logoutTimer = FALSE

EditIdle ==
    /\ dbUsers = <<>>
    /\ aePc = "off"
    /\ aeUsername = ""
    /\ aeForm = [kind |-> "none"]
    /\ aeLast = [kind |-> "none"]
    /\ aeCount = 0

ResultsIdle ==
    /\ srUrl = <<>>
    /\ srDeps = <<>>
    /\ srPc = "off"
    /\ srSeq = 0
    /\ srPending = {}
    /\ srLatest = [kind |-> "none"]
    /\ srDogs = [kind |-> "none"]
    /\ srLoading = FALSE
    /\ srError = FALSE
    /\ srChanges = 0

AuthIdle ==
    /\ authReq = [kind |-> "none"]
    /\ authRes = [status |-> 0]
    /\ authBefore = [kind |-> "none"]
    /\ authCount = 0

CountsIdle == fcRes = [status |-> 0]

ClientIdle ==
    /\ cFavs = <<>>
    /\ cLoads = {}
    /\ cToggles = {}
    /\ cSeq = 0
    /\ cLast = [kind |-> "none"]
    /\ cSeen = {}
    /\ cOverlap = {}

WelcomeIdle ==
    /\ wlZip = "undefined"
    /\ wlPc = "off"
    /\ wlSeq = 0
    /\ wlLoads = {}
    /\ wlLatest = 0
    /\ wlSpot = <<>>
    /\ wlSet = <<>>
    /\ wlChanges = 0

TailIdle == CountsIdle /\ ClientIdle /\ WelcomeIdle

AppIdle == EditIdle /\ ResultsIdle /\ AuthIdle /\ TailIdle

RestIdle == RegIdle /\ FavIdle /\ RouteIdle /\ AppIdle

\* ------------------------------------------------------------------------
\* Specifications
\* ------------------------------------------------------------------------
\* normalizeBreed on every string up to MaxNormLen over NormAlphabet
InitNormalize ==
    /\ nbIn \in StringsUpTo(NormAlphabet, MaxNormLen)
    /\ nbOut = <<>>
    /\ nbAgain = <<>>
    /\ nbPc = "in"
    /\ SearchIdle
    /\ SpotIdle
    /\ RestIdle

NextNormalize == NormalizeOnce \/ NormalizeAgain

SpecNormalize == InitNormalize /\ [][NextNormalize]_vars

\* GET /dogs: one selector against one candidate over BreedAlphabet, and
\* the queries and registry responses made of the vocabulary
InitSearch ==
    /\ NbIdle
    /\ SpotIdle
    /\ RestIdle
    /\ API_KEY \in BOOLEAN
    /\ \/ \E s \in StringsUpTo(BreedAlphabet, MaxSelLen),
            c \in StringsUpTo(BreedAlphabet, MaxCandLen) :
             /\ query = [breeds |-> OneString(s)]
             /\ rgData = <<Animal(1, c)>>
       \/ /\ query \in VocabularyQueries
          /\ rgData \in VocabularyData
    /\ httpRes = [status |-> 0]
    /\ reqPc = "request"

NextSearch == GetDogs

SpecSearch == InitSearch /\ [][NextSearch]_vars

\* one spotlight selection of the Welcome page
InitSpotlight ==
    /\ NbIdle
    /\ SearchIdle
    /\ RestIdle
    /\ zipcode \in Zipcodes
    /\ pc = "start"
    /\ searchPending = FALSE
    /\ countsPending = FALSE
    /\ dogPending = 0
    /\ results = <<>>
    /\ counts = <<>>
    /\ top = <<>>
    /\ dogs = <<>>
    /\ spotlightDogs = <<>>
    /\ searchCalls = <<>>
    /\ countsCalls = 0
    /\ getDogCalls = <<>>
    /\ failed = FALSE
    /\ raised = FALSE

NextSpotlight ==
    StartLoad \/ SearchDogsSettles \/ CountsSettles \/ GetDogSettles

SpecSpotlight == InitSpotlight /\ [][NextSpotlight]_vars

\* ------------------------------------------------------------------------
\* Properties: breed matching
\* ------------------------------------------------------------------------
\* the words of a normalized string: its maximal runs without a space
Words(t) ==
    {SubSeq(t, p[1], p[2]) :
        p \in {q \in (1..Len(t)) \X (1..Len(t)) :
                 /\ q[1] <= q[2]
                 /\ \A k \in q[1]..q[2] : t[k] # " "
                 /\ (q[1] = 1 \/ t[q[1] - 1] = " ")
                 /\ (q[2] = Len(t) \/ t[q[2] + 1] = " ")}}

TokensFor(s) == {w \in Words(normalizeBreed(s)) : Len(w) >= 3}

IsSubstring(t, s) ==
    \E i \in 1..(Len(s) - Len(t) + 1) : SubSeq(s, i, i + Len(t) - 1) = t

FuzzyMatch(s, c) == \E t \in TokensFor(s) : IsSubstring(t, normalizeBreed(c))

BreedOf(a) ==
    IF "breedString" \in DOMAIN a.attributes
    THEN a.attributes.breedString
    ELSE <<>>

Answered == reqPc = "responded" /\ httpRes.status = 200
ReturnedIds == [i \in 1..Len(httpRes.dogs) |-> httpRes.dogs[i].id]
Returned(id) == \E i \in 1..Len(httpRes.dogs) : httpRes.dogs[i].id = id

SelectedBreeds ==
    IF query.breeds.kind = "undefined" THEN <<>>
    ELSE IF query.breeds.kind = "string" THEN <<query.breeds.val>>
    ELSE query.breeds.val

\* C1: with a single selector s, an animal with breed string c is returned
\* if and only if some token of s (a word of normalize(s) of length >= 3)
\* is a substring of normalize(c).
C1_MatchIffTokenIsSubstring ==
    (Answered /\ Len(SelectedBreeds) = 1) =>
        \A i \in 1..Len(rgData) :
            Returned(rgData[i].id) <=>
                FuzzyMatch(SelectedBreeds[1], BreedOf(rgData[i]))

\* "German Shepherd Dog" drops "Labrador Retriever Mix" and keeps
\* "German Shepherd / Husky Mix"
C1_Witness ==
    /\ Answered
    /\ query = [breeds |-> OneString(strGermanShepherdDog)]
    /\ rgData = <<Animal(1, strLabradorMix), Animal(2, strShepherdHuskyMix)>>
    /\ ReturnedIds = <<2>>

\* C2: with breeds selected the response holds exactly the animals whose
\* normalized breed is not empty and contains a token of at least one
\* selected breed, in the registry's order; with no breeds selected it
\* holds every animal.
C2_SearchKeepsMatchesInOrder ==
    Answered =>
        LET all == [i \in 1..Len(rgData) |->
                       [id |-> rgData[i].id,
                        breedString |-> BreedOf(rgData[i])]]
        IN  httpRes.dogs =
              IF SelectedBreeds = <<>> THEN all
              ELSE SelectSeq(all, LAMBDA d :
                      /\ normalizeBreed(d.breedString) # <<>>
                      /\ \E k \in 1..Len(SelectedBreeds) :
                            FuzzyMatch(SelectedBreeds[k], d.breedString))

\* two selected breeds, each matching a different animal
C2_Witness ==
    /\ Answered
    /\ query = [breeds |-> AnArray(<<strBeagle, strGermanShepherdDog>>)]
    /\ rgData = <<Animal(1, strShepherdHuskyMix), Animal(2, strBeagleMix)>>
    /\ ReturnedIds = <<1, 2>>

\* C3: normalize is idempotent: normalizing a normalized string changes
\* nothing.
C3_NormalizeIdempotent == nbPc = "twice" => nbAgain = nbOut

\* ------------------------------------------------------------------------
\* Properties: spotlight
\* ------------------------------------------------------------------------
\* ascending order of the ids as strings: "10" < "9" < "a" < "b"
StringRank == ("10" :> 1) @@ ("9" :> 2) @@ ("a" :> 3) @@ ("b" :> 4)

HasPostalCode == zipcode \notin {NoZip, ""}
Selected == pc = "done" /\ ~failed

\* the favorite count of an id in the fetched mapping, 0 when absent
CountOf(id) ==
    LET hits == {i \in 1..Len(counts[1]) : counts[1][i].key = id}
    IN  IF hits = {} THEN 0 ELSE counts[1][CHOOSE i \in hits : TRUE].value

\* the candidates of the ranking: the search results, or the mapping's ids
Candidates ==
    IF HasPostalCode
    THEN {results[1][i].id : i \in 1..Len(results[1])}
    ELSE {counts[1][i].key : i \in 1..Len(counts[1])}

SpotlightIds == {spotlightDogs[i].id : i \in 1..Len(spotlightDogs)}

\* C4: dogs with equal favorite counts appear in ascending id order
\* (string comparison), whatever order the candidates were supplied in.
C4_TiesInAscendingIdOrder ==
    Selected =>
        \A i, j \in 1..Len(spotlightDogs) :
            (i < j /\ spotlightDogs[i].favoriteCount =
                      spotlightDogs[j].favoriteCount)
                => StringRank[spotlightDogs[i].id] <
                   StringRank[spotlightDogs[j].id]

\* C5: the ranking returns min(limit, |candidates|) dogs, they are the
\* candidates with the lowest favorite counts, and they are ordered by
\* non-decreasing count.
C5_LowestCountsInOrder ==
    Selected =>
        /\ Len(spotlightDogs) = Min(SpotlightSize, Cardinality(Candidates))
        /\ Cardinality(SpotlightIds) = Len(spotlightDogs)
        /\ SpotlightIds \subseteq Candidates
        /\ \A i \in 1..Len(spotlightDogs) :
              spotlightDogs[i].favoriteCount = CountOf(spotlightDogs[i].id)
        /\ \A i, j \in 1..Len(spotlightDogs) :
              i < j => spotlightDogs[i].favoriteCount <=
                       spotlightDogs[j].favoriteCount
        /\ \A c \in Candidates \ SpotlightIds :
              \A i \in 1..Len(spotlightDogs) :
                  spotlightDogs[i].favoriteCount <= CountOf(c)

\* candidates a (2), b (no favorite), 9 (1) and 10 (2) give [b, 9, a]
C5_Witness ==
    /\ Selected
    /\ HasPostalCode
    /\ results = <<<<[id |-> "a"], [id |-> "b"], [id |-> "9"],
                     [id |-> "10"]>>>>
    /\ spotlightDogs = <<[id |-> "b", favoriteCount |-> 0],
                         [id |-> "9", favoriteCount |-> 1],
                         [id |-> "a", favoriteCount |-> 2]>>

\* C6: a candidate whose id is absent from the mapping is ranked with
\* count 0, and is left out only when the limit is filled by other
\* candidates of count 0.
C6_AbsentCountsAsZero ==
    (Selected /\ HasPostalCode) =>
        \A c \in Candidates :
            (\A i \in 1..Len(counts[1]) : counts[1][i].key # c) =>
                \/ \E i \in 1..Len(spotlightDogs) :
                      spotlightDogs[i] = [id |-> c, favoriteCount |-> 0]
                \/ /\ Len(spotlightDogs) = SpotlightSize
                   /\ \A i \in 1..Len(spotlightDogs) :
                         spotlightDogs[i].favoriteCount = 0

\* candidates [a, b] with counts {a: 2}: b comes first with count 0
C6_Witness ==
    /\ Selected
    /\ results = <<<<[id |-> "a"], [id |-> "b"]>>>>
    /\ counts = <<<<[key |-> "a", value |-> 2]>>>>
    /\ spotlightDogs = <<[id |-> "b", favoriteCount |-> 0],
                         [id |-> "a", favoriteCount |-> 2]>>

\* C7: the selection never raises; once a sub-call has failed the
\* selection is over with an empty spotlight, and no sub-call is issued
\* twice.
C7_FailSoftNoRetry ==
    /\ ~raised
    /\ failed => (pc = "done" /\ spotlightDogs = <<>>)
    /\ Len(searchCalls) <= 1
    /\ countsCalls <= 1
    /\ \A i, j \in 1..Len(getDogCalls) :
          getDogCalls[i] = getDogCalls[j] => i = j

\* the third detail fetch fails after two dogs have been fetched
C7_Witness ==
    /\ failed
    /\ Len(dogs) = 2
    /\ Len(getDogCalls) = 3
    /\ spotlightDogs = <<>>

\* C8: without a postal code no search is ever issued; with one, the
\* selection issues one search (that postal code, 50 miles, has photo,
\* nothing else) together with one favorite-count fetch, and no detail
\* fetch.
C8_CallsPerStrategy ==
    /\ ~HasPostalCode => searchCalls = <<>>
    /\ (HasPostalCode /\ pc # "start") =>
          /\ searchCalls =
                <<[zip |-> zipcode, miles |-> 50, hasPic |-> TRUE]>>
          /\ countsCalls = 1
          /\ getDogCalls = <<>>

\* a located selection that has shown three dogs
C8_Witness ==
    /\ HasPostalCode
    /\ Selected
    /\ Len(spotlightDogs) = SpotlightSize

\* C9: for a user without a postal code, an empty favorite-count mapping
\* ends the selection with an empty spotlight and no detail fetch.
C9_EmptyMappingEmptySpotlight ==
    (~HasPostalCode /\ counts = <<<<>>>>) =>
        /\ pc = "done"
        /\ spotlightDogs = <<>>
        /\ getDogCalls = <<>>
        /\ dogPending = 0

\* the empty string as postal code, and the mapping came back empty
C9_Witness ==
    /\ zipcode = ""
    /\ counts = <<<<>>>>
    /\ Selected

\* C10: at most one detail fetch is in flight, there are at most `limit`
\* of them, and each is for an id of the mapping that fewer than `limit`
\* ids of the mapping have a lower count than.
C10_SequentialBoundedFetches ==
    /\ dogPending <= 1
    /\ Len(getDogCalls) <= SpotlightSize
    /\ \A i \in 1..Len(getDogCalls) :
          /\ counts # <<>>
          /\ getDogCalls[i] \in Candidates
          /\ ~HasPostalCode
          /\ Cardinality({c \in Candidates :
                            CountOf(c) < CountOf(getDogCalls[i])})
                < SpotlightSize

\* four ids in the mapping, the three with the lowest counts fetched
C10_Witness ==
    /\ Selected
    /\ Len(counts[1]) = 4
    /\ CountOf("a") = 2
    /\ getDogCalls = <<"9", "10", "b">>
    /\ dogPending = 0

\* ------------------------------------------------------------------------
\* backend/helpers/rescueGroups.js: the request sent to the registry
\* ------------------------------------------------------------------------
MaxCalls == 2       \* most registry calls one process serves
MaxHtmlLen == 4     \* longest enumerated HTML description

strTrue == <<"t", "r", "u", "e">>
strFalse == <<"f", "a", "l", "s", "e">>
strFemale == <<"F", "e", "m", "a", "l", "e">>
strMale == <<"M", "a", "l", "e">>
strYoung == <<"Y", "o", "u", "n", "g">>
strSmall == <<"S", "m", "a", "l", "l">>
strZip == <<"0", "1", "9", "3", "8">>
strOne == <<"1">>
strZero == <<"0">>

\* a value is falsy when it is undefined, null or the empty string
truthy(v) ==
    CASE v.kind \in {"undefined", "null"} -> FALSE
      [] v.kind = "string" -> v.val # <<>>
      [] OTHER -> TRUE

RECURSIVE join(_, _)
join(arr, sep) ==
    IF arr = <<>> THEN <<>>
    ELSE IF Len(arr) = 1 THEN arr[1]
    ELSE arr[1] \o sep \o join(Tail(arr), sep)

\* String(v) of a string or of an array of strings
String(v) == IF v.kind = "array" THEN join(v.val, <<",">>) ELSE v.val

DigitChars == <<"0", "1", "2", "3", "4", "5", "6", "7", "8", "9">>
DigitValue(ch) == (CHOOSE i \in 1..Len(DigitChars) : DigitChars[i] = ch) - 1
IsDigit(ch) == \E i \in 1..Len(DigitChars) : DigitChars[i] = ch

RECURSIVE parseDigits(_, _)
parseDigits(s, acc) ==
    IF s = <<>> THEN <<acc>>
    ELSE IF IsDigit(Head(s))
         THEN parseDigits(Tail(s), acc * 10 + DigitValue(Head(s)))
         ELSE <<>>

\* Number(v) of undefined, of a string of decimal digits or letters, or of
\* an array of such strings: <<>> is NaN, <<n>> is the number n
Number(v) ==
    IF v.kind = "undefined" THEN <<>> ELSE parseDigits(String(v), 0)

equalFilter(fieldName, criteria) ==
    [fieldName |-> fieldName, operation |-> "equal", criteria |-> criteria]

\* a boolean filter that also sends a false flag, as "0"
booleanFilterZero(v, fieldName) ==
    IF v = OneString(strTrue) THEN <<equalFilter(fieldName, strOne)>>
    ELSE IF v = OneString(strFalse) THEN <<equalFilter(fieldName, strZero)>>
    ELSE <<>>

\* if (q.flag === "true") filters.push({ fieldName, "equal", "1" })
booleanFilter(v, fieldName) ==
    IF v = OneString(strTrue) THEN <<equalFilter(fieldName, strOne)>>
    ELSE <<>>

\* if (q.field) filters.push({ fieldName, "equal", String(q.field) })
valueFilter(v, fieldName) ==
    IF truthy(v) THEN <<equalFilter(fieldName, String(v))>> ELSE <<>>

buildFiltersFromQuery(q) ==
    valueFilter(q.sex, "animals.sex") \o
    valueFilter(q.ageGroup, "animals.ageGroup") \o
    valueFilter(q.sizeGroup, "animals.sizeGroup") \o
    booleanFilter(q.isDogsOk, "animals.isDogsOk") \o
    booleanFilter(q.isCatsOk, "animals.isCatsOk") \o
    booleanFilter(q.isKidsOk, "animals.isKidsOk") \o
    booleanFilter(q.isHousetrained, "animals.isHousetrained") \o
    booleanFilter(q.isSpecialNeeds, "animals.isSpecialNeeds") \o
    booleanFilter(q.isNeedingFoster, "animals.isNeedingFoster")

\* a radius filter that is built without looking at the zip
buildFilterRadiusAlways(q) ==
    LET zip == q.zip
        n == Number(q.miles)
        miles == IF n # <<>> /\ n[1] # 0 THEN n[1] ELSE 50
    IN  [kind |-> "object", postalcode |-> zip, miles |-> miles]

buildFilterRadius(q) ==
    LET zip == q.zip
        n == Number(q.miles)
        miles == IF n # <<>> /\ n[1] # 0 THEN n[1] ELSE 50
    IN  IF ~truthy(zip) THEN Undefined
        ELSE [kind |-> "object", postalcode |-> zip, miles |-> miles]

\* the url, body and params of axios.post in searchAvailableDogs
searchRequest(q) ==
    LET breedsSelected == toArray(q.breeds)
        hasBreedFilter == Len(breedsSelected) > 0
        apiLimit == IF hasBreedFilter THEN 200 ELSE 150
        filters == buildFiltersFromQuery(q)
        filterRadius == buildFilterRadius(q)
    IN  [method |-> "POST",
         url |-> "/public/animals/search/available/dogs/haspic",
         body |-> [data |-> IF truthy(filterRadius)
                            THEN [filters |-> filters,
                                  filterRadius |-> filterRadius]
                            ELSE [filters |-> filters],
                   include |-> <<"pictures", "locations">>,
                   sort |-> <<"animals.distance">>],
         params |-> [limit |-> apiLimit, page |-> 1]]

\* the url and params of axios.get in getDogById
detailRequest(id) ==
    [method |-> "GET", url |-> "/public/animals/", id |-> id,
     params |-> [include |-> "pictures,locations"]]

\* a helper that goes on without the API key
configErrorNever(key) == <<>>

\* if (!API_KEY) throw { status: 500, message: "Missing RESCUEGROUPS_API_KEY" }
configError(key) ==
    IF ~key
    THEN <<[kind |-> "threw", status |-> 500,
            message |-> "Missing RESCUEGROUPS_API_KEY"]>>
    ELSE <<>>

\* the error axios rejects with: without a response when the registry did
\* not answer, and with a status of its own in the axios versions that set one
AxiosError(st) ==
    [kind |-> "threw",
     response |-> IF st = NoStatus THEN <<>> ELSE <<[status |-> st]>>,
     status |-> IF axiosStatus THEN st ELSE NoStatus]

\* the catch of searchAvailableDogs
searchCatch(err) ==
    [kind |-> "threw",
     status |-> IF err.response # <<>> /\ err.response[1].status # NoStatus
                THEN err.response[1].status
                ELSE 500]

\* ------------------------------------------------------------------------
\* backend/routes/dogs.js: GET /dogs/:id
\* ------------------------------------------------------------------------
\* An optional string is <<>> when it is undefined or null and <<s>> when
\* it is the string s.
null == <<>>

\* a || b
or(a, b) == IF a # <<>> /\ a[1] # <<>> THEN a ELSE b

\* const a = Array.isArray(raw) ? raw[0] : raw
primaryRecord(data) ==
    LET raw == data.data
    IN  IF raw.kind = "array"
        THEN IF raw.val = <<>> THEN Undefined ELSE raw.val[1]
        ELSE raw

\* a.attributes || {}
attributesOf(a) ==
    IF a.attributes # <<>> THEN a.attributes[1]
    ELSE [name |-> null, url |-> null, pictureThumbnailUrl |-> null,
          descriptionText |-> null, descriptionHtml |-> null]

\* the photos loop over data.included
photosOf(data) ==
    IF data.included = <<>> THEN <<>>
    ELSE LET inc == data.included[1]
             pics == SelectSeq(inc, LAMBDA x :
                         x.type = "pictures" /\ or(x.url, null) # null)
         IN  [i \in 1..Len(pics) |-> pics[i].url[1]]

\* data.included.find((x) => x.type === "locations" && x.id === locId):
\* <<>> or <<loc>>
findLocation(data, locId) ==
    IF or(locId, null) = null \/ data.included = <<>> THEN <<>>
    ELSE LET inc == data.included[1]
             found == SelectSeq(inc, LAMBDA x :
                          x.type = "locations" /\ x.id = locId[1])
         IN  IF found = <<>> THEN <<>> ELSE <<found[1]>>

\* a rescue url that takes the last alias that is set
rescueUrlLast(la) ==
    or(la.instagram, or(la.twitter, or(la.facebookUrl,
        or(la.website, or(la.urlWeb, or(la.url, null))))))

\* la.url || la.urlWeb || la.website || la.facebookUrl || la.twitter ||
\* la.instagram || null
rescueUrl(la) ==
    or(la.url, or(la.urlWeb, or(la.website,
        or(la.facebookUrl, or(la.twitter, or(la.instagram, null))))))

\* a missing record that is reported as a server error
notFoundAs500(a) ==
    IF ~truthy(a)
    THEN <<[kind |-> "threw", status |-> 500, message |-> "Dog not found"]>>
    ELSE <<>>

\* if (!a) throw { status: 404, message: "Dog not found" }
notFound(a) ==
    IF ~truthy(a)
    THEN <<[kind |-> "threw", status |-> 404, message |-> "Dog not found"]>>
    ELSE <<>>

\* the body of res.json(...) for the record a of the payload data
\* (of the attributes, name, the urls and the descriptions are kept)
detailBody(data, a) ==
    LET attrs == attributesOf(a)
        photos == photosOf(data)
        loc == findLocation(data, a.locId)
        hasLa == loc # <<>> /\ loc[1].attributes # <<>>
        city == IF hasLa THEN or(loc[1].attributes[1].city, null) ELSE null
        state == IF hasLa THEN or(loc[1].attributes[1].state, null) ELSE null
        rescue == IF hasLa THEN rescueUrl(loc[1].attributes[1]) ELSE null
        dogUrl == or(attrs.url, null)
        finalUrl == or(rescue, or(dogUrl, null))
    IN  [status |-> 200,
         id |-> a.id,
         name |-> or(attrs.name, null),
         city |-> city,
         state |-> state,
         photo |-> or(IF photos = <<>> THEN null ELSE <<photos[1]>>,
                      or(attrs.pictureThumbnailUrl, null)),
         photos |-> photos,
         url |-> finalUrl,
         descriptionText |-> or(attrs.descriptionText, null),
         descriptionHtml |-> or(attrs.descriptionHtml, null)]

\* the try block of the route after getDogById has returned data: the
\* response, or what errorHandler answers to the thrown 404
detailResponse(data) ==
    LET a == primaryRecord(data)
    IN  IF notFound(a) # <<>> THEN errorHandler(notFound(a)[1])
        ELSE detailBody(data, a)

\* ------------------------------------------------------------------------
\* frontend/src/pages/DogDetail.jsx: description handling
\* ------------------------------------------------------------------------
\* index of the first ">" of s at or after k, 0 when there is none
RECURSIVE tagEnd(_, _)
tagEnd(s, k) ==
    IF k > Len(s) THEN 0
    ELSE IF s[k] = ">" THEN k
    ELSE tagEnd(s, k + 1)

\* s.replace(/<[^>]+>/g, "") from index i on
RECURSIVE replaceTags(_, _)
replaceTags(s, i) ==
    IF i > Len(s) THEN <<>>
    ELSE LET e == IF s[i] = "<" /\ i + 1 <= Len(s) /\ s[i + 1] # ">"
                  THEN tagEnd(s, i + 2)
                  ELSE 0
         IN  IF e # 0 THEN replaceTags(s, e + 1)
             ELSE <<s[i]>> \o replaceTags(s, i + 1)

\* a description that shows the HTML as it came
descriptionRaw(dog) ==
    IF or(dog.descriptionText, null) = null
       /\ or(dog.descriptionHtml, null) # null
    THEN dog.descriptionHtml
    ELSE dog.descriptionText

\* let description = dog.descriptionText;
\* if (!description && dog.descriptionHtml) description = ...replace(...)
description(dog) ==
    IF or(dog.descriptionText, null) = null
       /\ or(dog.descriptionHtml, null) # null
    THEN <<replaceTags(dog.descriptionHtml[1], 1)>>
    ELSE dog.descriptionText

\* ------------------------------------------------------------------------
\* Registry calls: inputs
\* ------------------------------------------------------------------------
\* SearchResults.jsx sends flag || undefined, and buildQuery of api.js
\* leaves an undefined parameter out of the query string
flagParam(flag) == IF flag THEN OneString(strTrue) ELSE Undefined

FlagValues == {flagParam(TRUE), flagParam(FALSE), OneString(strFalse)}

\* every combination of the six behaviour flags, for one zip
FlagQueries ==
    {[sex |-> Undefined, ageGroup |-> Undefined, sizeGroup |-> Undefined,
      zip |-> OneString(strZip), miles |-> OneString(<<"5", "0">>),
      breeds |-> Undefined,
      isDogsOk |-> f[1], isCatsOk |-> f[2], isKidsOk |-> f[3],
      isHousetrained |-> f[4], isSpecialNeeds |-> f[5],
      isNeedingFoster |-> f[6]] : f \in [1..6 -> FlagValues]}

\* every combination of the other parameters
FieldQueries ==
    {[sex |-> s, ageGroup |-> a, sizeGroup |-> g, zip |-> z, miles |-> m,
      breeds |-> b,
      isDogsOk |-> d, isCatsOk |-> Undefined, isKidsOk |-> Undefined,
      isHousetrained |-> Undefined, isSpecialNeeds |-> Undefined,
      isNeedingFoster |-> Undefined] :
        s \in {Undefined, OneString(strFemale),
               AnArray(<<strFemale, strMale>>)},
        a \in {Undefined, OneString(strYoung)},
        g \in {Undefined, OneString(strSmall)},
        z \in {Undefined, OneString(<<>>), OneString(strZip)},
        m \in {Undefined, OneString(<<"2", "5">>), OneString(strZero),
               OneString(<<"x">>)},
        b \in {Undefined, OneString(strBeagle),
               AnArray(<<strBeagle, strPoodle>>)},
        d \in {Undefined, OneString(strTrue)}}

RegistryQueries == FlagQueries \cup FieldQueries

\* data.data of the registry's answers to a search
SearchPayloads == {<<>>, <<Animal(1, strBeagle)>>}

strId == <<"9">>
strName == <<"R", "e", "x">>
strCity == <<"B", "o", "s", "t", "o", "n">>
strDogUrl == <<"r", "g">>
strPic == <<"j", "p", "g">>
strL1 == <<"L", "1">>
strL2 == <<"L", "2">>
strHi == <<"H", "i">>
strHtmlHi == <<"<", "p", ">", "H", "i", "<", "/", "p", ">">>
HtmlAlphabet == {"<", ">", "a"}

\* the six alias fields of a location, in the order the route reads them
AliasNames == <<"url", "urlWeb", "website", "facebookUrl", "twitter",
                "instagram">>
\* alias i is missing, empty, or a url of its own
optUrl(i, c) ==
    CASE c = 0 -> null
      [] c = 1 -> <<<<>>>>
      [] OTHER -> <<<<"w", DigitChars[i + 1]>>>>

LocationAttributes ==
    {[city |-> <<strCity>>, state |-> null,
      url |-> optUrl(1, f[1]), urlWeb |-> optUrl(2, f[2]),
      website |-> optUrl(3, f[3]), facebookUrl |-> optUrl(4, f[4]),
      twitter |-> optUrl(5, f[5]), instagram |-> optUrl(6, f[6])] :
        f \in [1..6 -> 0..2]}

laAll == CHOOSE la \in LocationAttributes :
             \A i \in 1..6 : la[AliasNames[i]] = optUrl(i, 2)

DogUrls == {null, <<<<>>>>, <<strDogUrl>>}

attrsWith(url, text, html) ==
    [name |-> <<strName>>, url |-> url, pictureThumbnailUrl |-> null,
     descriptionText |-> text, descriptionHtml |-> html]

\* an animal of a detail payload; locId is relationships.locations.data[0].id
DetailAnimal(attrs, locId) ==
    [kind |-> "object", id |-> strId, attributes |-> attrs, locId |-> locId]

picture == [type |-> "pictures", id |-> strId, url |-> <<strPic>>]
locationItem(id, attrs) ==
    [type |-> "locations", id |-> id, attributes |-> attrs]

\* [animal] with its location: every combination of the aliases
UrlPayloads ==
    {[data |-> [kind |-> "array",
                val |-> <<DetailAnimal(<<attrsWith(u, null, null)>>,
                                       <<strL1>>)>>],
      included |-> <<<<picture, locationItem(strL1, <<la>>)>>>>] :
        u \in DogUrls, la \in LocationAttributes}

\* an animal whose location is missing somewhere on the way
LinkPayloads ==
    {[data |-> DetailAnimal(attrs, locId), included |-> inc] :
        attrs \in {<<>>} \cup {<<attrsWith(u, null, null)>> : u \in DogUrls},
        locId \in {null, <<<<>>>>, <<strL1>>},
        inc \in {<<>>, <<<<>>>>, <<<<picture>>>>,
                 <<<<locationItem(strL2, <<laAll>>)>>>>,
                 <<<<locationItem(strL1, <<>>)>>>>,
                 <<<<locationItem(strL1, <<laAll>>)>>>>}}

\* an animal with every combination of the two descriptions
DescPayloads ==
    {[data |-> DetailAnimal(<<attrsWith(<<strDogUrl>>, t, h)>>, null),
      included |-> <<>>] :
        t \in {null, <<<<>>>>, <<strHi>>},
        h \in {null, <<strHtmlHi>>} \cup
              {<<s>> : s \in StringsUpTo(HtmlAlphabet, MaxHtmlLen)}}

RecordPayloads == UrlPayloads \cup LinkPayloads \cup DescPayloads

\* a JSON:API document without primary record
NoRecordPayloads ==
    {[data |-> d, included |-> inc] :
        d \in {Undefined, [kind |-> "null"], [kind |-> "array", val |-> <<>>]},
        inc \in {<<>>, <<<<picture>>>>}}

\* ------------------------------------------------------------------------
\* Registry calls: actions
\* ------------------------------------------------------------------------
CanStart == rgPc = "idle" /\ rgDone < MaxCalls

\* GET /dogs calls searchAvailableDogs(req.query): up to the await
SearchAvailableDogs ==
    /\ CanStart
    /\ \E q \in RegistryQueries :
          /\ rgCall' = [kind |-> "search", query |-> q]
          /\ IF configError(API_KEY) # <<>>
             THEN /\ rgOut' = configError(API_KEY)[1]
                  /\ rgRes' = errorHandler(configError(API_KEY)[1])
                  /\ rgRequest' = <<>>
                  /\ rgSent' = rgSent
                  /\ rgPc' = "responded"
                  /\ rgDone' = rgDone + 1
             ELSE /\ rgOut' = [kind |-> "none"]
                  /\ rgRes' = [status |-> 0]
                  /\ rgRequest' = <<searchRequest(q)>>
                  /\ rgSent' = rgSent + 1
                  /\ rgPc' = "awaitPost"
                  /\ rgDone' = rgDone
    /\ detailView' = [kind |-> "none"]
    /\ UNCHANGED <<axiosStatus, rgAnswer, rgOks>>
    /\ UNCHANGED <<nbVars, searchVars, spotVars, favVars, routeVars, appVars>>

\* axios.post settles: searchAvailableDogs returns resp.data or its catch
\* throws, and GET /dogs answers
PostSettles ==
    /\ rgPc = "awaitPost"
    /\ \/ \E data \in SearchPayloads :
             /\ rgAnswer' = 200
             /\ rgOut' = [kind |-> "returned", data |-> data]
             /\ rgRes' = LET ds == filterDogs(rgCall.query, data)
                         IN  [status |-> 200, dogs |-> ds, page |-> 1,
                              total |-> Len(ds), countReturned |-> Len(ds),
                              pages |-> 1]
             /\ rgOks' = rgOks + 1
       \/ \E st \in RegistryStatuses :
             /\ rgAnswer' = st
             /\ rgOut' = searchCatch(AxiosError(st))
             /\ rgRes' = errorHandler(searchCatch(AxiosError(st)))
             /\ rgOks' = rgOks
    /\ rgPc' = "responded"
    /\ rgDone' = rgDone + 1
    /\ UNCHANGED <<axiosStatus, rgCall, rgRequest, rgSent, detailView>>
    /\ UNCHANGED <<nbVars, searchVars, spotVars, favVars, routeVars, appVars>>

\* DogDetail calls getDog(id), GET /dogs/:id calls getDogById(id): up to
\* the await; the registry has the record or has not
GetDogById ==
    /\ CanStart
    /\ \E exists \in BOOLEAN :
          rgCall' = [kind |-> "detail", id |-> strId, exists |-> exists]
    /\ IF configError(API_KEY) # <<>>
       THEN /\ rgOut' = configError(API_KEY)[1]
            /\ rgRes' = errorHandler(configError(API_KEY)[1])
            /\ rgRequest' = <<>>
            /\ rgSent' = rgSent
            /\ rgPc' = "responded"
            /\ rgDone' = rgDone + 1
       ELSE /\ rgOut' = [kind |-> "none"]
            /\ rgRes' = [status |-> 0]
            /\ rgRequest' = <<detailRequest(strId)>>
            /\ rgSent' = rgSent + 1
            /\ rgPc' = "awaitGet"
            /\ rgDone' = rgDone
    /\ detailView' = [kind |-> "loading"]
    /\ UNCHANGED <<axiosStatus, rgAnswer, rgOks>>
    /\ UNCHANGED <<nbVars, searchVars, spotVars, favVars, routeVars, appVars>>

\* axios.get settles: getDogById returns resp.data or lets the AxiosError
\* through, and GET /dogs/:id answers
GetSettles ==
    /\ rgPc = "awaitGet"
    /\ \/ \E data \in (IF rgCall.exists THEN RecordPayloads
                                         ELSE NoRecordPayloads) :
             /\ rgAnswer' = 200
             /\ rgOut' = [kind |-> "returned", data |-> data]
             /\ rgRes' = detailResponse(data)
       \/ \E st \in (IF rgCall.exists THEN RegistryStatuses
                                      ELSE RegistryStatuses \cup {404}) :
             /\ rgAnswer' = st
             /\ rgOut' = AxiosError(st)
             /\ rgRes' = errorHandler(AxiosError(st))
    /\ rgOks' = IF rgRes'.status = 200 THEN rgOks + 1 ELSE rgOks
    /\ rgPc' = "responded"
    /\ rgDone' = rgDone + 1
    /\ UNCHANGED <<axiosStatus, rgCall, rgRequest, rgSent, detailView>>
    /\ UNCHANGED <<nbVars, searchVars, spotVars, favVars, routeVars, appVars>>

\* getDog(id) settles in DogDetail, which renders the dog or the error
DogDetailRenders ==
    /\ rgPc = "responded"
    /\ rgCall.kind = "detail"
    /\ detailView' =
          IF rgRes.status = 200
          THEN [kind |-> "dog", dog |-> rgRes,
                description |-> description(rgRes)]
          ELSE [kind |-> "error", error |-> "Could not load dog details."]
    /\ rgPc' = "rendered"
    /\ UNCHANGED <<axiosStatus, rgCall, rgRequest, rgSent, rgAnswer, rgOut,
                   rgRes, rgDone, rgOks>>
    /\ UNCHANGED <<nbVars, searchVars, spotVars, favVars, routeVars, appVars>>

\* the request is over: its locals are gone, and the page is left
RequestEnds ==
    /\ \/ rgPc = "responded" /\ rgCall.kind = "search"
       \/ rgPc = "rendered"
    /\ rgPc' = "idle"
    /\ rgCall' = [kind |-> "none"]
    /\ rgRequest' = <<>>
    /\ rgAnswer' = NoStatus
    /\ rgOut' = [kind |-> "none"]
    /\ rgRes' = [status |-> 0]
    /\ detailView' = [kind |-> "none"]
    /\ UNCHANGED <<axiosStatus, rgSent, rgDone, rgOks>>
    /\ UNCHANGED <<nbVars, searchVars, spotVars, favVars, routeVars, appVars>>

\* one backend process and the calls it serves
InitRegistry ==
    /\ NbIdle
    /\ SpotIdle
    /\ FavIdle
    /\ RouteIdle
    /\ AppIdle
    /\ API_KEY \in BOOLEAN
    /\ query = [breeds |-> Undefined]
    /\ rgData = <<>>
    /\ httpRes = [status |-> 0]
    /\ reqPc = "off"
    /\ axiosStatus \in BOOLEAN
    /\ rgCall = [kind |-> "none"]
    /\ rgPc = "idle"
    /\ rgRequest = <<>>
    /\ rgSent = 0
    /\ rgAnswer = 0
    /\ rgOut = [kind |-> "none"]
    /\ rgRes = [status |-> 0]
    /\ rgDone = 0
    /\ rgOks = 0
    /\ detailView = [kind |-> "none"]

NextRegistry ==
    \/ SearchAvailableDogs
    \/ PostSettles
    \/ GetDogById
    \/ GetSettles
    \/ DogDetailRenders
    \/ RequestEnds

SpecRegistry == InitRegistry /\ [][NextRegistry]_vars

\* ------------------------------------------------------------------------
\* Properties: the request sent to the registry
\* ------------------------------------------------------------------------
\* a search request has been sent and has not been forgotten
SearchSent == rgCall.kind = "search" /\ rgRequest # <<>>

\* the query names a postal code (a zip that is not the empty string)
PostalCodePresent(q) == q.zip # Undefined /\ q.zip # OneString(<<>>)

\* the fields a search request may constrain; none of them is a breed
SexAgeSizeFields == {"animals.sex", "animals.ageGroup", "animals.sizeGroup"}
FlagName ==
    [isDogsOk |-> "animals.isDogsOk", isCatsOk |-> "animals.isCatsOk",
     isKidsOk |-> "animals.isKidsOk",
     isHousetrained |-> "animals.isHousetrained",
     isSpecialNeeds |-> "animals.isSpecialNeeds",
     isNeedingFoster |-> "animals.isNeedingFoster"]
FlagFields == {FlagName[n] : n \in DOMAIN FlagName}

\* C11: the body of a search request has a filterRadius exactly when the
\* query names a postal code, that radius is around this postal code, and
\* whatever breeds are selected the body selects by nothing but filters
\* (on sex, age group, size group and the six flags) and filterRadius.
C11_RadiusIffPostalCode ==
    SearchSent =>
        LET d == rgRequest[1].body.data
            q == rgCall.query
        IN  /\ ("filterRadius" \in DOMAIN d) <=> PostalCodePresent(q)
            /\ "filterRadius" \in DOMAIN d =>
                  d.filterRadius.postalcode = q.zip
            /\ DOMAIN d \subseteq {"filters", "filterRadius"}
            /\ \A i \in 1..Len(d.filters) :
                  d.filters[i].fieldName \in SexAgeSizeFields \cup FlagFields

\* two breeds are selected without a postal code, and the request has gone
\* out without radius
C11_Witness ==
    /\ SearchSent
    /\ Len(toArray(rgCall.query.breeds)) = 2
    /\ ~PostalCodePresent(rgCall.query)
    /\ "filterRadius" \notin DOMAIN rgRequest[1].body.data

\* the filters of the request that are on field f
FiltersOn(f) ==
    SelectSeq(rgRequest[1].body.data.filters, LAMBDA x : x.fieldName = f)

\* C12: in a search request each of the six flags that the query has as
\* "true" has exactly one filter, which is `equal "1"`, and each flag that
\* is "false" or absent has no filter at all.
C12_TrueFlagsOnly ==
    SearchSent =>
        \A n \in DOMAIN FlagName :
            IF rgCall.query[n] = OneString(strTrue)
            THEN FiltersOn(FlagName[n]) =
                     <<[fieldName |-> FlagName[n], operation |-> "equal",
                        criteria |-> strOne]>>
            ELSE FiltersOn(FlagName[n]) = <<>>

\* one flag is true, one is "false" and the others are absent
C12_Witness ==
    /\ SearchSent
    /\ rgCall.query.isCatsOk = OneString(strTrue)
    /\ rgCall.query.isDogsOk = OneString(strFalse)
    /\ rgCall.query.isKidsOk = flagParam(FALSE)
    /\ Len(rgRequest[1].body.data.filters) = 1

\* ------------------------------------------------------------------------
\* Properties: failures of registry calls
\* ------------------------------------------------------------------------
Awaiting == rgPc \in {"awaitPost", "awaitGet"}
CallAnswered == rgPc \in {"responded", "rendered"}

\* the outbound request of this call has failed
OutboundFailed == CallAnswered /\ rgRequest # <<>> /\ rgAnswer # 200

NoPrimaryRecord(data) ==
    data.data \in {Undefined, [kind |-> "null"],
                   [kind |-> "array", val |-> <<>>]}

DetailReturned == rgCall.kind = "detail" /\ rgOut.kind = "returned"

\* C14: when getDogById has returned a payload without primary record,
\* GET /dogs/:id answers 404 with no animal in the response, and the page
\* shows no dog.
C14_NoRecordIs404 ==
    (DetailReturned /\ NoPrimaryRecord(rgOut.data)) =>
        /\ rgRes = [status |-> 404]
        /\ detailView.kind # "dog"

\* the registry sent an empty array and the page shows the error
C14_Witness ==
    /\ DetailReturned
    /\ rgOut.data.data = [kind |-> "array", val |-> <<>>]
    /\ rgPc = "rendered"
    /\ detailView.kind = "error"

\* C15: when the registry has no record for the id and has said so,
\* getDogById has returned a payload without primary record and has not
\* thrown.
C15_MissingRecordIsNotAnError ==
    (/\ rgCall.kind = "detail"
     /\ CallAnswered
     /\ rgRequest # <<>>
     /\ ~rgCall.exists
     /\ rgAnswer \in {200, 404}) =>
        /\ rgOut.kind = "returned"
        /\ NoPrimaryRecord(rgOut.data)

\* C16: without API key no outbound request is ever sent, no call is
\* answered with 200, and every call that is answered has thrown the
\* configuration error, which surfaces as a 500.
C16_MissingKeyFailsEveryCall ==
    ~API_KEY =>
        /\ rgSent = 0
        /\ rgRequest = <<>>
        /\ ~Awaiting
        /\ rgOks = 0
        /\ CallAnswered =>
              /\ rgOut = [kind |-> "threw", status |-> 500,
                          message |-> "Missing RESCUEGROUPS_API_KEY"]
              /\ rgRes = [status |-> 500]

\* the second call of a process without API key, a detail call, has failed
C16_Witness ==
    /\ ~API_KEY
    /\ rgDone >= 2
    /\ rgCall.kind = "detail"
    /\ rgPc = "rendered"
    /\ detailView.kind = "error"

\* ------------------------------------------------------------------------
\* Properties: the detail animal
\* ------------------------------------------------------------------------
NonEmpty(o) == o # <<>> /\ o[1] # <<>>

\* the primary record of the payload that getDogById returned
Record ==
    IF rgOut.data.data.kind = "array" THEN rgOut.data.data.val[1]
    ELSE rgOut.data.data

\* attribute f of the record as the registry sent it
RawAttr(f) ==
    IF Record.attributes = <<>> THEN null ELSE Record.attributes[1][f]

DetailAnimalReturned == DetailReturned /\ ~NoPrimaryRecord(rgOut.data)

\* the attributes of the location the record is related to: <<>> or <<la>>
RelatedLocation ==
    IF ~NonEmpty(Record.locId) \/ rgOut.data.included = <<>> THEN <<>>
    ELSE LET inc == rgOut.data.included[1]
             I == {i \in 1..Len(inc) :
                      inc[i].type = "locations" /\ inc[i].id = Record.locId[1]}
         IN  IF I = {} THEN <<>>
             ELSE inc[CHOOSE i \in I : \A j \in I : i <= j].attributes

\* the aliases of the related location that are set, by position
AliasesSet ==
    IF RelatedLocation = <<>> THEN {}
    ELSE {i \in 1..Len(AliasNames) :
             NonEmpty(RelatedLocation[1][AliasNames[i]])}

InTag(s, i) ==
    \E a \in 1..i, b \in i..Len(s) :
        /\ s[a] = "<"
        /\ s[b] = ">"
        /\ b > a + 1
        /\ \A k \in (a + 1)..(b - 1) : s[k] # ">"

\* s without the characters that are inside a tag
Stripped(s) ==
    LET idx == SelectSeq([i \in 1..Len(s) |-> i], LAMBDA i : ~InTag(s, i))
    IN  [k \in 1..Len(idx) |-> s[idx[k]]]

\* C18: the description DogDetail shows is the record's descriptionText
\* when that is non-empty, otherwise its descriptionHtml without the
\* characters inside tags when that is non-empty, otherwise null.
C18_DescriptionTextOrStrippedHtml ==
    (DetailAnimalReturned /\ rgPc = "rendered") =>
        /\ detailView.kind = "dog"
        /\ detailView.description =
              IF NonEmpty(RawAttr("descriptionText"))
              THEN RawAttr("descriptionText")
              ELSE IF NonEmpty(RawAttr("descriptionHtml"))
                   THEN <<Stripped(RawAttr("descriptionHtml")[1])>>
                   ELSE null

\* "<p>Hi</p>" without descriptionText is shown as "Hi"
C18_Witness ==
    /\ DetailAnimalReturned
    /\ rgPc = "rendered"
    /\ RawAttr("descriptionText") = null
    /\ RawAttr("descriptionHtml") = <<strHtmlHi>>
    /\ detailView.description = <<strHi>>

\* ------------------------------------------------------------------------
\* backend/models/favorites.js and backend/routes/favorites.js
\* ------------------------------------------------------------------------
MaxFavRequests == 3     \* most favorites requests in one run

\* favorites(username REFERENCES users, dog_id, PRIMARY KEY (username, dog_id))
colUsername == <<"u", "s", "e", "r", "n", "a", "m", "e">>
colDog_id == <<"d", "o", "g", "_", "i", "d">>
FavoritesColumns == {colUsername, colDog_id}

\* ON CONFLICT (username, dog_id): the primary key of the table
conflictTargetKey == <<colUsername, colDog_id>>

\* ON CONFLICT (username, dogId), as the statement of addFavorite has it
conflictTarget == <<colUsername, <<"d", "o", "g", "I", "d">>>>

\* PostgreSQL folds an identifier that is not quoted to lower case
foldIdentifier(id) == toLowerCase(id)

FavUsers == {"meg", "sam"}      \* rows of the users table
FavNames == {"", "zed"} \cup FavUsers
FavDogIds == {"", "9", "10"}

\* INSERT INTO favorites (username, dog_id) VALUES ($1, $2)
\* ON CONFLICT (conflictTarget) DO NOTHING: the statement fails when the
\* conflict target names a column the table has not, or when the username
\* is not a user; a row that is there already is left alone
addFavorite(rows, username, dogId) ==
    IF \E i \in 1..Len(conflictTarget) :
           foldIdentifier(conflictTarget[i]) \notin FavoritesColumns
    THEN [ok |-> FALSE, rows |-> rows]
    ELSE IF username \notin FavUsers
    THEN [ok |-> FALSE, rows |-> rows]
    ELSE [ok |-> TRUE,
          rows |-> rows \cup {[username |-> username, dog_id |-> dogId]}]

\* DELETE FROM favorites WHERE username = $1 AND dog_id = $2
removeFavorite(rows, username, dogId) ==
    rows \ {[username |-> username, dog_id |-> dogId]}

\* SELECT dog_id FROM favorites WHERE username = $1 ORDER BY dog_id
getFavoritesForUser(rows, username) ==
    LET ids == {r.dog_id : r \in {x \in rows : x.username = username}}
    IN  CHOOSE s \in [1..Cardinality(ids) -> ids] :
            \A i, j \in 1..Cardinality(ids) :
                i < j => StringRank[s[i]] < StringRank[s[j]]

\* the error of a failed db.query has no status
dbError == [status |-> NoStatus]

\* router.post("/", ...)
PostFavorite ==
    /\ favCount < MaxFavRequests
    /\ \E username \in FavNames, dogId \in FavDogIds :
          /\ favReq' = [kind |-> "post", username |-> username,
                        dogId |-> dogId]
          /\ IF username = "" \/ dogId = ""
             THEN /\ favRes' = [status |-> 400]
                  /\ favorites' = favorites
             ELSE LET added == addFavorite(favorites, username, dogId)
                  IN  /\ favorites' = added.rows
                      /\ favRes' =
                            IF added.ok
                            THEN [status |-> 200, favorited |-> TRUE,
                                  favorites |->
                                      getFavoritesForUser(added.rows,
                                                          username)]
                            ELSE errorHandler(dbError)
    /\ favBefore' = favorites
    /\ favPrev' = [req |-> favReq, res |-> favRes]
    /\ favCount' = favCount + 1
    /\ UNCHANGED <<nbVars, searchVars, spotVars, regVars, routeVars, appVars>>

\* router.delete("/", ...)
DeleteFavorite ==
    /\ favCount < MaxFavRequests
    /\ \E username \in FavNames, dogId \in FavDogIds :
          /\ favReq' = [kind |-> "delete", username |-> username,
                        dogId |-> dogId]
          /\ IF username = "" \/ dogId = ""
             THEN /\ favRes' = [status |-> 400]
                  /\ favorites' = favorites
             ELSE LET rows == removeFavorite(favorites, username, dogId)
                  IN  /\ favorites' = rows
                      /\ favRes' = [status |-> 200, favorited |-> FALSE,
                                    favorites |->
                                        getFavoritesForUser(rows, username)]
    /\ favBefore' = favorites
    /\ favPrev' = [req |-> favReq, res |-> favRes]
    /\ favCount' = favCount + 1
    /\ UNCHANGED <<nbVars, searchVars, spotVars, regVars, routeVars, appVars>>

\* the favorites table with any rows of the users, and the requests to it
InitFavorites ==
    /\ NbIdle
    /\ SearchIdle
    /\ SpotIdle
    /\ RegIdle
    /\ RouteIdle
    /\ AppIdle
    /\ favorites \in SUBSET [username : FavUsers, dog_id : FavDogIds \ {""}]
    /\ favRes = [status |-> 0]
    /\ favReq = [kind |-> "none"]
    /\ favBefore = {}
    /\ favPrev = [req |-> [kind |-> "none"], res |-> [status |-> 0]]
    /\ favCount = 0

NextFavorites == PostFavorite \/ DeleteFavorite

SpecFavorites == InitFavorites /\ [][NextFavorites]_vars

\* ------------------------------------------------------------------------
\* Properties: favorites
\* ------------------------------------------------------------------------
\* the number of users who have the dog as favorite
FavoriteCount(rows, dogId) == Cardinality({r \in rows : r.dog_id = dogId})

\* the last two requests were POSTs of the same username and dogId, both
\* given, by a user
SecondAdd ==
    /\ favReq.kind = "post"
    /\ favPrev.req = favReq
    /\ favReq.username \in FavUsers
    /\ favReq.dogId # ""

\* C19: the second of two POST /favorites with the same username and dogId
\* is answered with 200 and the user's list, and leaves the table, and so
\* the user's list and the dog's count, as the first left them.
C19_SecondAddHarmless ==
    SecondAdd =>
        /\ favRes.status = 200
        /\ favRes = favPrev.res
        /\ favorites = favBefore
        /\ getFavoritesForUser(favorites, favReq.username) =
               getFavoritesForUser(favBefore, favReq.username)
        /\ FavoriteCount(favorites, favReq.dogId) =
               FavoriteCount(favBefore, favReq.dogId)

\* ------------------------------------------------------------------------
\* frontend/src/App.jsx: the route table and its guard
\* ------------------------------------------------------------------------
\* A path is the sequence of its segments: "/" is <<>>, "/dogs/9" is
\* <<"dogs", "9">>.
Root == <<>>

\* the <Route> elements of App in their order: path pattern, element, and
\* whether the route is inside <Route element={<RequireAuth />}>
Routes ==
    <<[path |-> <<>>, element |-> "Home", guarded |-> FALSE],
      [path |-> <<"login">>, element |-> "Login", guarded |-> FALSE],
      [path |-> <<"signup">>, element |-> "Signup", guarded |-> FALSE],
      [path |-> <<"welcome">>, element |-> "Welcome", guarded |-> TRUE],
      [path |-> <<"about">>, element |-> "About", guarded |-> TRUE],
      [path |-> <<"search">>, element |-> "Search", guarded |-> TRUE],
      [path |-> <<"results">>, element |-> "SearchResults", guarded |-> TRUE],
      [path |-> <<"dogs", ":id">>, element |-> "DogDetail", guarded |-> TRUE],
      [path |-> <<"favorites">>, element |-> "Favorites", guarded |-> TRUE],
      [path |-> <<"admin">>, element |-> "Admin", guarded |-> TRUE],
      [path |-> <<"profile">>, element |-> "Profile", guarded |-> TRUE],
      [path |-> <<"admin", "edit", ":username">>,
       element |-> "AdminEditUser", guarded |-> TRUE]>>

\* a segment of a pattern that stands for a parameter
IsParam(seg) == seg \in {":id", ":username"}

\* the pattern matches the pathname
matchPath(pattern, pathname) ==
    /\ Len(pattern) = Len(pathname)
    /\ \A i \in 1..Len(pattern) :
          IsParam(pattern[i]) \/ pattern[i] = pathname[i]

\* a guard that lets everyone in
RequireAuthOpen(u) == "Outlet"

\* if (!user) return <Navigate to="/" replace .../>; return <Outlet />
RequireAuth(u) == IF u = <<>> THEN "Navigate" ELSE "Outlet"

\* what <Routes> renders inside the layout for a pathname and a user
renderRoutes(pathname, u) ==
    LET hits == {i \in 1..Len(Routes) : matchPath(Routes[i].path, pathname)}
    IN  IF hits = {} THEN "NotFound"
        ELSE LET r == Routes[CHOOSE i \in hits : \A j \in hits : i <= j]
             IN  IF r.guarded /\ RequireAuth(u) = "Navigate"
                 THEN "Navigate"
                 ELSE r.element

Pathnames ==
    {<<>>, <<"login">>, <<"signup">>, <<"welcome">>, <<"about">>,
     <<"search">>, <<"results">>, <<"dogs", "9">>, <<"dogs", "10">>,
     <<"favorites">>, <<"admin">>, <<"profile">>, <<"admin", "edit", "meg">>,
     <<"admin", "edit", "sam">>, <<"nowhere">>}

AppUsers ==
    {[username |-> "meg", isAdmin |-> FALSE],
     [username |-> "admin", isAdmin |-> TRUE]}

\* a link, a typed address or a navigate(path) of a page
GoTo ==
    /\ element # "Navigate"
    /\ \E pathname \in Pathnames :
          /\ location' = pathname
          /\ element' = renderRoutes(pathname, user)
    /\ locationFrom' = <<>>
    /\ UNCHANGED <<user, logoutTimer>>
    /\ UNCHANGED <<nbVars, searchVars, spotVars, regVars, favVars, appVars>>

\* the effect of <Navigate to="/" replace state={{ from: location }} />
Redirect ==
    /\ element = "Navigate"
    /\ location' = Root
    /\ locationFrom' = <<location>>
    /\ element' = renderRoutes(Root, user)
    /\ UNCHANGED <<user, logoutTimer>>
    /\ UNCHANGED <<nbVars, searchVars, spotVars, regVars, favVars, appVars>>

\* loginUser(userData) from the Login, Signup or Profile page
LoginUser ==
    /\ element \in {"Login", "Signup", "Profile"}
    /\ \E u \in AppUsers : user' = <<u>>
    /\ element' = renderRoutes(location, user')
    /\ UNCHANGED <<location, locationFrom, logoutTimer>>
    /\ UNCHANGED <<nbVars, searchVars, spotVars, regVars, favVars, appVars>>

\* handleLogout of the layout: logoutUser() and setTimeout(navigate("/"))
HandleLogout ==
    /\ element # "Navigate"
    /\ user # <<>>
    /\ user' = <<>>
    /\ logoutTimer' = TRUE
    /\ element' = renderRoutes(location, <<>>)
    /\ UNCHANGED <<location, locationFrom>>
    /\ UNCHANGED <<nbVars, searchVars, spotVars, regVars, favVars, appVars>>

\* the timeout of handleLogout fires: navigate("/")
LogoutTimerFires ==
    /\ element # "Navigate"
    /\ logoutTimer
    /\ logoutTimer' = FALSE
    /\ location' = Root
    /\ locationFrom' = <<>>
    /\ element' = renderRoutes(Root, user)
    /\ UNCHANGED user
    /\ UNCHANGED <<nbVars, searchVars, spotVars, regVars, favVars, appVars>>

\* the app opened at any address, nobody logged in
InitRoutes ==
    /\ NbIdle
    /\ SearchIdle
    /\ SpotIdle
    /\ RegIdle
    /\ FavIdle
    /\ AppIdle
    /\ user = <<>>
    /\ location \in Pathnames
    /\ locationFrom = <<>>
    /\ element = renderRoutes(location, user)
    /\ logoutTimer = FALSE

NextRoutes ==
    GoTo \/ Redirect \/ LoginUser \/ HandleLogout \/ LogoutTimerFires

SpecRoutes == InitRoutes /\ [][NextRoutes]_vars

\* ------------------------------------------------------------------------
\* Properties: protected routes
\* ------------------------------------------------------------------------
ProtectedPathnames ==
    {<<"welcome">>, <<"about">>, <<"search">>, <<"results">>,
     <<"dogs", "9">>, <<"dogs", "10">>, <<"favorites">>, <<"admin">>,
     <<"profile">>, <<"admin", "edit", "meg">>, <<"admin", "edit", "sam">>}
ProtectedPages ==
    {"Welcome", "About", "Search", "SearchResults", "DogDetail",
     "Favorites", "Admin", "Profile", "AdminEditUser"}

\* nobody is logged in: no protected page is rendered, and at a protected
\* address the redirect is rendered in its place
LoggedOutShowsNothingProtected ==
    user = <<>> =>
        /\ element \notin ProtectedPages
        /\ location \in ProtectedPathnames => element = "Navigate"

\* C20: while nobody is logged in, logged out a moment ago or never logged
\* in, no protected page is rendered, a protected address renders the
\* redirect, and the step after the redirect is at "/" on the Home page.
C20_LoggedOutRedirectsHome ==
    /\ []LoggedOutShowsNothingProtected
    /\ [][(user = <<>> /\ location \in ProtectedPathnames) =>
              (location' = Root /\ element' = "Home")]_vars

\* a user has just logged out on /dogs/9: the redirect is rendered while
\* the timeout of the logout is still pending
C20_Witness ==
    /\ user = <<>>
    /\ logoutTimer
    /\ location = <<"dogs", "9">>
    /\ element = "Navigate"

\* ------------------------------------------------------------------------
\* frontend/src/pages/AdminEditUser.jsx and PATCH /admin/users/:username
\* ------------------------------------------------------------------------
\* at most this many PATCH /admin/users/:username per behaviour
MaxEdits == 2

DbUsernames == {"meg", "sam", "admin"}
EditTargets == DbUsernames \cup {"zed"}
FormEmails == {"", "new@x"}
FormZipcodes == {"", "01938"}
FormPasswords == {"", "pw2"}

\* bcrypt.hash(password, BCRYPT_WORK_FACTOR)
hash(password) == <<"hash", password>>

\* NULL in a column
dbNull == "NULL"

SeedEmail(u) ==
    CASE u = "meg" -> "meg@x" [] u = "sam" -> "sam@x" [] OTHER -> "admin@x"

\* the users table as the seed leaves it
SeedUsers ==
    [u \in DbUsernames |->
        [email |-> SeedEmail(u), zipcode |-> "02110",
         password_hash |-> hash("pw1"), is_admin |-> (u = "admin")]]

\* Admin.jsx: if (!user?.isAdmin && user?.username !== "admin") "Admin Only"
adminOnly(u) == ~u.isAdmin /\ u.username # "admin"

\* GET /admin/users: every row of the table, whoever asks
getAllUsers(rows) ==
    {[username |-> u, email |-> rows[u].email,
      zipcode |-> IF rows[u].zipcode = dbNull THEN "" ELSE rows[u].zipcode,
      isAdmin |-> rows[u].is_admin] : u \in DOMAIN rows}

\* PATCH /admin/users/:username with body {email, zipcode, password}; a
\* password of "" stands for the undefined the page sends for an empty
\* field. The answer is the status and the table after the request.
patchUser(rows, username, body) ==
    IF username \notin DOMAIN rows
    THEN [status |-> 404, rows |-> rows]
    ELSE LET old == rows[username]
             row == [old EXCEPT
                       !.email = IF body.email # "" THEN body.email ELSE @,
                       !.zipcode = body.zipcode,
                       !.password_hash =
                           IF body.password # "" THEN hash(body.password)
                           ELSE @]
         IN  [status |-> 200, rows |-> [rows EXCEPT ![username] = row]]

EditOthers ==
    <<nbVars, searchVars, spotVars, regVars, favVars, resultsVars, authVars,
      tailVars>>

\* the address /admin/edit/:username is opened: the route table renders,
\* and the page, if rendered, mounts with loading = true and starts load()
OpenEditUser ==
    /\ aePc \in {"off", "form"}
    /\ aeCount < MaxEdits
    /\ \E username \in EditTargets :
          /\ location' = <<"admin", "edit", username>>
          /\ element' = renderRoutes(location', user)
          /\ IF element' = "AdminEditUser"
             THEN aePc' = "loading" /\ aeUsername' = username
             ELSE aePc' = "off" /\ aeUsername' = ""
    /\ locationFrom' = <<>>
    /\ aeForm' = [username |-> "", email |-> "", zipcode |-> "",
                  password |-> ""]
    /\ UNCHANGED <<user, logoutTimer, dbUsers, aeLast, aeCount>>
    /\ UNCHANGED EditOthers

\* load() after getAllUsers() settled: the form is filled, or the page
\* leaves for /admin when the user is not in the list or the call failed
LoadSettles ==
    /\ aePc = "loading"
    /\ \E rejected \in BOOLEAN :
          LET users == getAllUsers(dbUsers)
              found == {u \in users : u.username = aeUsername}
          IN  IF rejected \/ found = {}
              THEN /\ location' = <<"admin">>
                   /\ locationFrom' = <<>>
                   /\ element' = renderRoutes(location', user)
                   /\ aePc' = "off"
                   /\ UNCHANGED aeForm
              ELSE LET u == CHOOSE x \in found : TRUE
                   IN  /\ aeForm' = [username |-> u.username,
                                     email |-> u.email,
                                     zipcode |-> u.zipcode,
                                     password |-> ""]
                       /\ aePc' = "form"
                       /\ UNCHANGED <<location, locationFrom, element>>
    /\ UNCHANGED <<user, logoutTimer, dbUsers, aeUsername, aeLast, aeCount>>
    /\ UNCHANGED EditOthers

\* handleChange of an input of the form
HandleChange ==
    /\ aePc = "form"
    /\ \/ \E v \in FormEmails : aeForm' = [aeForm EXCEPT !.email = v]
       \/ \E v \in FormZipcodes : aeForm' = [aeForm EXCEPT !.zipcode = v]
       \/ \E v \in FormPasswords : aeForm' = [aeForm EXCEPT !.password = v]
    /\ UNCHANGED <<dbUsers, aePc, aeUsername, aeLast, aeCount>>
    /\ UNCHANGED <<routeVars, EditOthers>>

\* handleSubmit: adminUpdateUser(username, {email, zipcode, password}),
\* then navigate("/admin"); a rejected call leaves the page where it is
HandleSubmit ==
    /\ aePc = "form"
    /\ aeCount < MaxEdits
    /\ LET body == [email |-> aeForm.email, zipcode |-> aeForm.zipcode,
                    password |-> aeForm.password]
           res == patchUser(dbUsers, aeUsername, body)
       IN  /\ dbUsers' = res.rows
           /\ aeLast' = [kind |-> "patch", by |-> user[1],
                         username |-> aeUsername, body |-> body,
                         status |-> res.status]
           /\ IF res.status = 200
              THEN /\ location' = <<"admin">>
                   /\ locationFrom' = <<>>
                   /\ element' = renderRoutes(location', user)
                   /\ aePc' = "off"
              ELSE UNCHANGED <<location, locationFrom, element, aePc>>
    /\ aeCount' = aeCount + 1
    /\ UNCHANGED <<user, logoutTimer, aeUsername, aeForm>>
    /\ UNCHANGED EditOthers

\* a user is logged in, an admin or not, on the welcome page
InitAdminEdit ==
    /\ NbIdle
    /\ SearchIdle
    /\ SpotIdle
    /\ RegIdle
    /\ FavIdle
    /\ \E u \in AppUsers : user = <<u>>
    /\ location = <<"welcome">>
    /\ locationFrom = <<>>
    /\ element = renderRoutes(location, user)
    /\ logoutTimer = FALSE
    /\ dbUsers = SeedUsers
    /\ aePc = "off"
    /\ aeUsername = ""
    /\ aeForm = [kind |-> "none"]
    /\ aeLast = [kind |-> "none"]
    /\ aeCount = 0
    /\ ResultsIdle
    /\ AuthIdle
    /\ TailIdle

NextAdminEdit == OpenEditUser \/ LoadSettles \/ HandleChange \/ HandleSubmit

SpecAdminEdit == InitAdminEdit /\ [][NextAdminEdit]_vars

\* ------------------------------------------------------------------------
\* Properties: the admin edit-user page
\* ------------------------------------------------------------------------
\* the logged-in user is not an admin
NotAdmin == user # <<>> /\ adminOnly(user[1])

\* the page shows the edit form
EditFormShown == element = "AdminEditUser" /\ aePc = "form"

\* the last PATCH was accepted and was for another user's row
UpdatedAnother ==
    /\ aeLast.kind = "patch"
    /\ aeLast.status = 200
    /\ aeLast.username # aeLast.by.username

\* C21: a logged-in user who is not an admin never gets the edit form of
\* /admin/edit/:username and no update of another user's email, zipcode or
\* password submitted by them is accepted.
C21_OnlyAdminsEditUsers ==
    NotAdmin => ~EditFormShown /\ ~UpdatedAnother

\* ------------------------------------------------------------------------
\* frontend/src/pages/SearchResults.jsx: the search effect
\* ------------------------------------------------------------------------
\* at most this many changes of the results URL while the page is mounted
MaxUrlChanges == 2

\* searchParams.get(name) is "" here for a parameter that is absent or empty
FlagParams ==
    {"isDogsOk", "isCatsOk", "isKidsOk", "isHousetrained", "isSpecialNeeds",
     "isNeedingFoster"}
UrlParams ==
    {"zip", "miles", "sex", "ageGroup", "sizeGroup", "breeds"} \cup FlagParams
rawBeagle == "[\"Beagle\"]"
UrlValues(name) ==
    CASE name = "zip" -> {"", "01938", "02118"}
      [] name = "miles" -> {"", "25"}
      [] name = "sex" -> {"", "Female"}
      [] name = "ageGroup" -> {"", "Young"}
      [] name = "sizeGroup" -> {"", "Small"}
      [] name = "breeds" -> {"", rawBeagle, "oops"}
      [] OTHER -> {"", "true", "false"}

\* a || b on strings
orString(a, b) == IF a # "" THEN a ELSE b

\* JSON.parse(breedsParam) kept when it is an array, [] otherwise
parseBreeds(breedsParam) ==
    IF breedsParam = rawBeagle THEN <<"Beagle">> ELSE <<>>

\* the argument of searchDogs() built from the URL; a field that is
\* undefined there is "" for a string and FALSE for a flag here
searchArgs(url) ==
    [zip |-> url["zip"],
     miles |-> orString(url["miles"], "50"),
     hasPic |-> TRUE,
     sex |-> url["sex"],
     ageGroup |-> url["ageGroup"],
     sizeGroup |-> url["sizeGroup"],
     flags |-> {f \in FlagParams : url[f] = "true"},
     breeds |-> parseBreeds(url["breeds"])]

\* the dependency array of the search effect
searchDeps(url) ==
    <<url["zip"], orString(url["miles"], "50"), url["sex"], url["ageGroup"],
      url["sizeGroup"], url["breeds"]>>

ResultsOthers ==
    <<nbVars, searchVars, spotVars, regVars, favVars, routeVars, authVars,
      tailVars>>

\* doSearch() up to its await, on URL url: srSeq' and srPending' are set
StartSearch(url) ==
    /\ srSeq' = srSeq + 1
    /\ srPending' = srPending \cup {[id |-> srSeq + 1, args |-> searchArgs(url)]}
    /\ srLatest' = [kind |-> "search", id |-> srSeq + 1,
                    args |-> searchArgs(url)]
    /\ srLoading' = TRUE
    /\ srError' = FALSE

\* the query string of /results changes while the page is mounted (a move in
\* the history between two /results entries): the page renders again, the
\* guard effect leaves for /search when there is no zip, and the search
\* effect runs when one of its dependencies changed
UrlChanges ==
    /\ srPc = "mounted"
    /\ srChanges < MaxUrlChanges
    /\ \E name \in UrlParams : \E v \in UrlValues(name) \ {srUrl[name]} :
          srUrl' = [srUrl EXCEPT ![name] = v]
    /\ srChanges' = srChanges + 1
    /\ srDeps' = searchDeps(srUrl')
    /\ srPc' = IF srUrl'["zip"] = "" THEN "left" ELSE "mounted"
    /\ IF srDeps' # srDeps /\ srUrl'["zip"] # ""
       THEN StartSearch(srUrl')
       ELSE UNCHANGED <<srSeq, srPending, srLatest, srLoading, srError>>
    /\ UNCHANGED srDogs
    /\ UNCHANGED <<ResultsOthers, editVars>>

\* a searchDogs() call settles: setDogs(res.dogs || []) or setError(...),
\* then setLoading(false); nothing is set once the page is gone
SearchSettles ==
    /\ srPending # {}
    /\ \E call \in srPending : \E rejected \in BOOLEAN :
          /\ srPending' = srPending \ {call}
          /\ IF srPc # "mounted"
             THEN UNCHANGED <<srDogs, srError, srLoading>>
             ELSE /\ srLoading' = FALSE
                  /\ IF rejected
                     THEN srError' = TRUE /\ UNCHANGED srDogs
                     ELSE /\ srDogs' = [kind |-> "dogs", id |-> call.id,
                                        args |-> call.args]
                          /\ UNCHANGED srError
    /\ UNCHANGED <<srUrl, srDeps, srPc, srSeq, srLatest, srChanges>>
    /\ UNCHANGED <<ResultsOthers, editVars>>

InitUrls ==
    {[name \in UrlParams |-> IF name = "zip" THEN "01938" ELSE ""],
     [name \in UrlParams |->
         CASE name = "zip" -> "02118"
           [] name = "miles" -> "25"
           [] name = "sex" -> "Female"
           [] name = "ageGroup" -> "Young"
           [] name = "sizeGroup" -> "Small"
           [] name = "breeds" -> rawBeagle
           [] OTHER -> "true"]}

\* the page was opened from the search form and its first search is out
InitResults ==
    /\ NbIdle
    /\ SearchIdle
    /\ SpotIdle
    /\ RegIdle
    /\ FavIdle
    /\ RouteIdle
    /\ EditIdle
    /\ AuthIdle
    /\ TailIdle
    /\ srUrl \in InitUrls
    /\ srDeps = searchDeps(srUrl)
    /\ srPc = "mounted"
    /\ srSeq = 1
    /\ srPending = {[id |-> 1, args |-> searchArgs(srUrl)]}
    /\ srLatest = [kind |-> "search", id |-> 1, args |-> searchArgs(srUrl)]
    /\ srDogs = [kind |-> "none"]
    /\ srLoading = TRUE
    /\ srError = FALSE
    /\ srChanges = 0

NextResults == UrlChanges \/ SearchSettles

SpecResults == InitResults /\ [][NextResults]_vars

\* ------------------------------------------------------------------------
\* Properties: the search effect
\* ------------------------------------------------------------------------
\* C22: while the results page is shown, the search run last was run with
\* the filter values of the URL: every change of the filters in the URL
\* has started a new search with the new values.
C22_FilterChangeRunsSearch ==
    srPc = "mounted" => srLatest.args = searchArgs(srUrl)

\* every search has returned and the one started last did not fail
SearchesReturned == srPc = "mounted" /\ srPending = {} /\ ~srError

\* C30: once every search has returned, the dog list shown is the response
\* to the search started last, that of the latest filters, in whatever
\* order the responses arrived.
C30_LatestSearchShown ==
    SearchesReturned =>
        srDogs.kind = "dogs" /\ srDogs.args = srLatest.args

\* ------------------------------------------------------------------------
\* backend/routes/auth.js: POST /auth/signup and POST /auth/login
\* ------------------------------------------------------------------------
\* at most this many /auth requests per behaviour
MaxAuthRequests == 3

AuthNames == {"", "meg", "zed"}
AuthPasswords == {"", "pw1", "pw2"}
AuthEmails == {"", "meg@x", "zed@x"}
AuthZipcodes == {"", "01938"}

\* the bodies of the error responses
msgSignupRequired ==
    <<"u", "s", "e", "r", "n", "a", "m", "e", ",", " ", "p", "a", "s", "s",
      "w", "o", "r", "d", ",", " ", "a", "n", "d", " ", "e", "m", "a", "i",
      "l", " ", "a", "r", "e", " ", "r", "e", "q", "u", "i", "r", "e",
      "d">>
msgTaken ==
    <<"U", "s", "e", "r", "n", "a", "m", "e", " ", "a", "l", "r", "e", "a",
      "d", "y", " ", "t", "a", "k", "e", "n">>
msgLoginRequired ==
    <<"u", "s", "e", "r", "n", "a", "m", "e", " ", "a", "n", "d", " ", "p",
      "a", "s", "s", "w", "o", "r", "d", " ", "a", "r", "e", " ", "r", "e",
      "q", "u", "i", "r", "e", "d">>
msgInvalid ==
    <<"I", "n", "v", "a", "l", "i", "d", " ", "u", "s", "e", "r", "n", "a",
      "m", "e", " ", "o", "r", " ", "p", "a", "s", "s", "w", "o", "r",
      "d">>
msgInvalidUsername ==
    <<"I", "n", "v", "a", "l", "i", "d", " ", "u", "s", "e", "r", "n", "a",
      "m", "e">>

\* bcrypt.compare(password, password_hash)
compare(password, password_hash) == password_hash = hash(password)

\* the unique constraints of users: username is the primary key, email is
\* unique
uniqueViolation(rows, username, email) ==
    \/ username \in DOMAIN rows
    \/ \E u \in DOMAIN rows : rows[u].email = email

\* a signup that answers 201 to a taken username and replaces the account
signupOverwrites(rows, body) ==
    LET row == [email |-> body.email, zipcode |-> body.zipcode,
                password_hash |-> hash(body.password), is_admin |-> FALSE]
    IN  [res |-> [status |-> 201,
                  user |-> [username |-> body.username, email |-> row.email,
                            zipcode |-> row.zipcode, isAdmin |-> FALSE]],
         rows |-> [u \in DOMAIN rows \cup {body.username} |->
                      IF u = body.username THEN row ELSE rows[u]]]

\* router.post("/signup"): the response and the table after the request
signup(rows, body) ==
    IF body.username = "" \/ body.password = "" \/ body.email = ""
    THEN [res |-> [status |-> 400, error |-> msgSignupRequired],
          rows |-> rows]
    ELSE IF uniqueViolation(rows, body.username, body.email)
    THEN [res |-> [status |-> 400, error |-> msgTaken], rows |-> rows]
    ELSE LET row == [email |-> body.email,
                     zipcode |-> IF body.zipcode # "" THEN body.zipcode
                                 ELSE dbNull,
                     password_hash |-> hash(body.password),
                     is_admin |-> FALSE]
         IN  [res |-> [status |-> 201,
                       user |-> [username |-> body.username,
                                 email |-> row.email,
                                 zipcode |-> row.zipcode,
                                 isAdmin |-> row.is_admin]],
              rows |-> [u \in DOMAIN rows \cup {body.username} |->
                           IF u = body.username THEN row ELSE rows[u]]]

\* a login that names the username when it is the unknown part
loginTelling(rows, body) ==
    IF body.username = "" \/ body.password = ""
    THEN [status |-> 400, error |-> msgLoginRequired]
    ELSE IF body.username \notin DOMAIN rows
    THEN [status |-> 400, error |-> msgInvalidUsername]
    ELSE IF ~compare(body.password, rows[body.username].password_hash)
    THEN [status |-> 400, error |-> msgInvalid]
    ELSE [status |-> 200, user |-> [username |-> body.username]]

\* router.post("/login"): the response
login(rows, body) ==
    IF body.username = "" \/ body.password = ""
    THEN [status |-> 400, error |-> msgLoginRequired]
    ELSE IF body.username \notin DOMAIN rows
    THEN [status |-> 400, error |-> msgInvalid]
    ELSE IF ~compare(body.password, rows[body.username].password_hash)
    THEN [status |-> 400, error |-> msgInvalid]
    ELSE LET row == rows[body.username]
         IN  [status |-> 200,
              user |-> [username |-> body.username, email |-> row.email,
                        zipcode |-> row.zipcode, isAdmin |-> row.is_admin]]

AuthOthers ==
    <<nbVars, searchVars, spotVars, regVars, favVars, routeVars, resultsVars,
      tailVars>>

\* POST /auth/signup
PostSignup ==
    /\ authCount < MaxAuthRequests
    /\ \E username \in AuthNames, password \in AuthPasswords,
          email \in AuthEmails, zip \in AuthZipcodes :
          LET body == [username |-> username, password |-> password,
                       email |-> email, zipcode |-> zip]
              out == signup(dbUsers, body)
          IN  /\ authReq' = [kind |-> "signup", body |-> body]
              /\ authRes' = out.res
              /\ dbUsers' = out.rows
    /\ authBefore' = [users |-> dbUsers, favorites |-> favorites]
    /\ authCount' = authCount + 1
    /\ UNCHANGED <<aePc, aeUsername, aeForm, aeLast, aeCount>>
    /\ UNCHANGED AuthOthers

\* POST /auth/login
PostLogin ==
    /\ authCount < MaxAuthRequests
    /\ \E username \in AuthNames, password \in AuthPasswords :
          LET body == [username |-> username, password |-> password]
          IN  /\ authReq' = [kind |-> "login", body |-> body]
              /\ authRes' = login(dbUsers, body)
    /\ authBefore' = [users |-> dbUsers, favorites |-> favorites]
    /\ authCount' = authCount + 1
    /\ UNCHANGED <<dbUsers, aePc, aeUsername, aeForm, aeLast, aeCount>>
    /\ UNCHANGED AuthOthers

\* rows of the favorites table of two of the seeded users
SeedFavorites ==
    {[username |-> "meg", dog_id |-> "9"], [username |-> "meg", dog_id |-> "10"],
     [username |-> "sam", dog_id |-> "9"]}

\* the seeded tables, and no request served yet
InitAuth ==
    /\ NbIdle
    /\ SearchIdle
    /\ SpotIdle
    /\ RegIdle
    /\ RouteIdle
    /\ ResultsIdle
    /\ TailIdle
    /\ favorites = SeedFavorites
    /\ favRes = [status |-> 0]
    /\ favReq = [kind |-> "none"]
    /\ favBefore = {}
    /\ favPrev = [req |-> [kind |-> "none"], res |-> [status |-> 0]]
    /\ favCount = 0
    /\ dbUsers = SeedUsers
    /\ aePc = "off"
    /\ aeUsername = ""
    /\ aeForm = [kind |-> "none"]
    /\ aeLast = [kind |-> "none"]
    /\ aeCount = 0
    /\ authReq = [kind |-> "none"]
    /\ authRes = [status |-> 0]
    /\ authBefore = [users |-> SeedUsers, favorites |-> SeedFavorites]
    /\ authCount = 0

NextAuth == PostSignup \/ PostLogin

SpecAuth == InitAuth /\ [][NextAuth]_vars

\* ------------------------------------------------------------------------
\* Properties: signup and login
\* ------------------------------------------------------------------------
strUsername == <<"u", "s", "e", "r", "n", "a", "m", "e">>

\* the last request was a signup with the username of an account
DuplicateSignup ==
    /\ authReq.kind = "signup"
    /\ authReq.body.username \in DOMAIN authBefore.users

\* C23: a signup whose username already exists is answered with status 400
\* and an error that names the username, and leaves the users table (email,
\* zipcode, password hash and admin flag of every account) and the
\* favorites table as they were.
C23_DuplicateSignupRejected ==
    DuplicateSignup =>
        /\ authRes.status = 400
        /\ includes(toLowerCase(authRes.error), strUsername)
        /\ dbUsers = authBefore.users
        /\ favorites = authBefore.favorites

\* a complete signup for the username of meg, who has favorites
C23_Witness ==
    /\ DuplicateSignup
    /\ authReq.body.username = "meg"
    /\ authReq.body.password = "pw2"
    /\ authReq.body.email = "zed@x"
    /\ authRes = [status |-> 400, error |-> msgTaken]
    /\ getFavoritesForUser(favorites, "meg") = <<"10", "9">>

\* the last request was a login that named a username and was refused
FailedLogin ==
    /\ authReq.kind = "login"
    /\ authReq.body.username # ""
    /\ authRes.status # 200

\* C24: the response to a refused login, status and body, is the response
\* every other username would have got with the same password when refused:
\* an unknown username and a known one with a wrong password are answered
\* alike.
C24_FailedLoginTellsNothing ==
    FailedLogin =>
        \A u \in (AuthNames \cup DOMAIN dbUsers) \ {""} :
            LET other == login(dbUsers, [username |-> u,
                                         password |-> authReq.body.password])
            IN  other.status # 200 => other = authRes

\* a login of an unknown username is refused while the same password is
\* the wrong one for a known username
C24_Witness ==
    /\ FailedLogin
    /\ authReq.body.username = "zed"
    /\ "zed" \notin DOMAIN dbUsers
    /\ authReq.body.password = "pw2"
    /\ "meg" \in DOMAIN dbUsers
    /\ ~compare("pw2", dbUsers["meg"].password_hash)

\* counts with an entry, possibly 0, for every dog id ever asked for
getFavoriteCountsAll(rows) ==
    [dogId \in FavDogIds \ {""} |->
        Cardinality({r \in rows : r.dog_id = dogId})]

\* ------------------------------------------------------------------------
\* GET /favorites: the favorite counts
\* ------------------------------------------------------------------------
\* SELECT dog_id AS "dogId", COUNT(*)::int AS count FROM favorites
\* GROUP BY dog_id, folded into the object counts[row.dogId] = row.count
getFavoriteCounts(rows) ==
    [dogId \in {r.dog_id : r \in rows} |->
        Cardinality({r \in rows : r.dog_id = dogId})]

\* router.get("/", ...)
GetCounts ==
    /\ fcRes' = [status |-> 200, counts |-> getFavoriteCounts(favorites),
                 served |-> favCount]
    /\ UNCHANGED <<nbVars, searchVars, spotVars, regVars, favVars, routeVars,
                   editVars, resultsVars, authVars, clientVars,
                   welcomeVars>>

NextCounts == PostFavorite \/ DeleteFavorite \/ GetCounts

SpecCounts == InitFavorites /\ [][NextCounts]_vars

\* ------------------------------------------------------------------------
\* Properties: the favorite counts
\* ------------------------------------------------------------------------
\* the users who have the dog among their favorites
FavoritedBy(rows, dogId) == {r.username : r \in {x \in rows : x.dog_id = dogId}}

\* the counts were answered after the last add or remove
CountsFresh == fcRes.status = 200 /\ fcRes.served = favCount

\* C25: after any adds and removes, the favorite-count mapping has a dog id
\* exactly when some user has it among their favorites, and its value is
\* the number of the users who have, a positive integer.
C25_CountsMatchFavorites ==
    CountsFresh =>
        /\ DOMAIN fcRes.counts =
               {d \in FavDogIds : FavoritedBy(favorites, d) # {}}
        /\ \A d \in DOMAIN fcRes.counts :
              /\ fcRes.counts[d] = Cardinality(FavoritedBy(favorites, d))
              /\ fcRes.counts[d] \in Nat \ {0}

\* counts answered after a remove took a dog's last favorite away, with
\* another dog favorited by two users
C25_Witness ==
    /\ CountsFresh
    /\ favReq.kind = "delete"
    /\ favRes.status = 200
    /\ [username |-> favReq.username, dog_id |-> favReq.dogId] \in favBefore
    /\ FavoritedBy(favorites, favReq.dogId) = {}
    /\ \E d \in DOMAIN fcRes.counts : fcRes.counts[d] = 2

\* ------------------------------------------------------------------------
\* AuthContext favorites: loginUser's load, and the heart toggles
\* ------------------------------------------------------------------------
\* at most this many favorites requests of the client per behaviour
MaxClientRequests == 3

ClientUsers == {[username |-> u, isAdmin |-> FALSE] : u \in FavUsers}
NewUser == [username |-> "zed", isAdmin |-> FALSE]
ClientDogIds == FavDogIds \ {""}

\* Array.prototype.includes
arrayIncludes(a, x) == \E i \in 1..Len(a) : a[i] = x

\* f.filter((id) => id !== dogId)
filterOut(f, dogId) == SelectSeq(f, LAMBDA id : id # dogId)

\* the elements of an array
Elements(a) == {a[i] : i \in 1..Len(a)}

ClientOthers ==
    <<nbVars, searchVars, spotVars, regVars, editVars, resultsVars, authVars,
      countVars, welcomeVars>>

\* loginUser(userData), from the Login page or from handleSubmit of the
\* Profile page: setUser, and loadUserFavorites() up to its await
ClientLogin ==
    /\ cSeq < MaxClientRequests
    /\ \E u \in ClientUsers :
          /\ user' = <<u>>
          /\ cLoads' = cLoads \cup
                 {[id |-> cSeq + 1, username |-> u.username,
                   phase |-> "sent", favs |-> <<>>]}
    /\ cSeq' = cSeq + 1
    /\ cSeen' = cSeen \cup {user'[1].username}
    /\ UNCHANGED <<cFavs, cToggles, cLast, cOverlap>>
    /\ UNCHANGED <<location, locationFrom, element, logoutTimer>>
    /\ UNCHANGED <<favVars, ClientOthers>>

\* signupUser(userData) after signup() resolved
ClientSignup ==
    /\ user # <<NewUser>>
    /\ user' = <<NewUser>>
    /\ cFavs' = <<>>
    /\ cSeen' = cSeen \cup {NewUser.username}
    /\ UNCHANGED <<cLoads, cToggles, cSeq, cLast, cOverlap>>
    /\ UNCHANGED <<location, locationFrom, element, logoutTimer>>
    /\ UNCHANGED <<favVars, ClientOthers>>

\* logoutUser()
ClientLogout ==
    /\ user # <<>>
    /\ user' = <<>>
    /\ cFavs' = <<>>
    /\ UNCHANGED <<cLoads, cToggles, cSeq, cLast, cSeen, cOverlap>>
    /\ UNCHANGED <<location, locationFrom, element, logoutTimer>>
    /\ UNCHANGED <<favVars, ClientOthers>>

\* GET /favorites/:username is served
LoadServed ==
    /\ \E load \in cLoads :
          /\ load.phase = "sent"
          /\ cLoads' = (cLoads \ {load}) \cup
                 {[load EXCEPT
                     !.phase = "answered",
                     !.favs = getFavoritesForUser(favorites, load.username)]}
    /\ UNCHANGED <<cFavs, cToggles, cSeq, cLast, cSeen, cOverlap>>
    /\ UNCHANGED <<routeVars, favVars, ClientOthers>>

\* loadUserFavorites() after its await: setFavorites(favs || [])
LoadReturns ==
    /\ \E load \in cLoads :
          /\ load.phase = "answered"
          /\ cLoads' = cLoads \ {load}
          /\ cFavs' = load.favs
    /\ UNCHANGED <<cToggles, cSeq, cLast, cSeen, cOverlap>>
    /\ UNCHANGED <<routeVars, favVars, ClientOthers>>

\* toggleFavorite(evt, dogId) up to its await: with isFav(dogId) the call
\* is removeFavorite, else addFavorite, for the user logged in
ToggleClick ==
    /\ user # <<>>
    /\ cSeq < MaxClientRequests
    /\ \E dogId \in ClientDogIds :
          /\ cToggles' = cToggles \cup
                 {[id |-> cSeq + 1,
                   kind |-> IF arrayIncludes(cFavs, dogId) THEN "remove"
                            ELSE "add",
                   username |-> user[1].username, dogId |-> dogId,
                   phase |-> "sent", ok |-> FALSE]}
          /\ cOverlap' = IF \E call \in cToggles : call.dogId = dogId
                         THEN cOverlap \cup {dogId}
                         ELSE cOverlap
    /\ cSeq' = cSeq + 1
    /\ UNCHANGED <<cFavs, cLoads, cLast, cSeen>>
    /\ UNCHANGED <<routeVars, favVars, ClientOthers>>

\* POST /favorites or DELETE /favorites of a toggle is served
ToggleServed ==
    /\ \E call \in cToggles :
          /\ call.phase = "sent"
          /\ LET added == addFavorite(favorites, call.username, call.dogId)
                 ok == IF call.kind = "add" THEN added.ok ELSE TRUE
             IN  /\ favorites' =
                        IF call.kind = "add" THEN added.rows
                        ELSE removeFavorite(favorites, call.username,
                                            call.dogId)
                 /\ cToggles' = (cToggles \ {call}) \cup
                        {[call EXCEPT !.phase = "answered", !.ok = ok]}
                 /\ cLast' = IF ok
                             THEN [kind |-> call.kind, id |-> call.id,
                                   username |-> call.username,
                                   dogId |-> call.dogId]
                             ELSE cLast
    /\ UNCHANGED <<cFavs, cLoads, cSeq, cSeen, cOverlap>>
    /\ UNCHANGED <<favRes, favReq, favBefore, favPrev, favCount>>
    /\ UNCHANGED <<routeVars, ClientOthers>>

\* toggleFavorite after its await: the functional setFavorites of the
\* branch taken at the click, or the catch when the call was rejected
ToggleReturns ==
    /\ \E call \in cToggles :
          /\ call.phase = "answered"
          /\ cToggles' = cToggles \ {call}
          /\ cFavs' = IF ~call.ok THEN cFavs
                      ELSE IF call.kind = "remove"
                      THEN filterOut(cFavs, call.dogId)
                      ELSE Append(cFavs, call.dogId)
    /\ UNCHANGED <<cLoads, cSeq, cLast, cSeen, cOverlap>>
    /\ UNCHANGED <<routeVars, favVars, ClientOthers>>

\* the app just opened, nobody logged in, the seeded favorites table
InitClient ==
    /\ NbIdle
    /\ SearchIdle
    /\ SpotIdle
    /\ RegIdle
    /\ RouteIdle
    /\ EditIdle
    /\ ResultsIdle
    /\ AuthIdle
    /\ CountsIdle
    /\ WelcomeIdle
    /\ favorites = SeedFavorites
    /\ favRes = [status |-> 0]
    /\ favReq = [kind |-> "none"]
    /\ favBefore = {}
    /\ favPrev = [req |-> [kind |-> "none"], res |-> [status |-> 0]]
    /\ favCount = 0
    /\ cFavs = <<>>
    /\ cLoads = {}
    /\ cToggles = {}
    /\ cSeq = 0
    /\ cLast = [kind |-> "none"]
    /\ cSeen = {}
    /\ cOverlap = {}

NextClient ==
    \/ ClientLogin
    \/ ClientSignup
    \/ ClientLogout
    \/ LoadServed
    \/ LoadReturns
    \/ ToggleClick
    \/ ToggleServed
    \/ ToggleReturns

SpecClient == InitClient /\ [][NextClient]_vars

\* ------------------------------------------------------------------------
\* Properties: the shared favorites list
\* ------------------------------------------------------------------------
\* no favorites request of the client is in flight
AllReturned == cLoads = {} /\ cToggles = {}

\* C26: once every load has returned, the shared favorites list is empty
\* when nobody is logged in, and is the list of the user logged in when no
\* toggle has changed the table since.
C26_LoadsNeverCrossSessions ==
    AllReturned =>
        /\ user = <<>> => cFavs = <<>>
        /\ (user # <<>> /\ cLast.kind = "none") =>
               cFavs = getFavoritesForUser(favorites, user[1].username)

\* the only user this client has had is logged in, and the backend has
\* applied a toggle of theirs
ToggleSucceeded ==
    /\ user # <<>>
    /\ cSeen = {user[1].username}
    /\ cLast.kind # "none"
    /\ cLast.username = user[1].username

\* C27: once every request has returned, the shared favorites list has,
\* as a set, the favorites the backend has for the user whose toggle
\* succeeded, loads of loginUser that returned after it included.
C27_ToggleNeverLost ==
    (AllReturned /\ ToggleSucceeded) =>
        Elements(cFavs) =
            Elements(getFavoritesForUser(favorites, user[1].username))

MaxZipChanges == 2

WelcomeZips == Zipcodes \cup {"02118"}

\* what the backend answers during these runs: the dogs within 50 miles of
\* a postal code, and the public favorite counts
nearby(zip) ==
    IF zip = "01938" THEN <<[id |-> "9"], [id |-> "a"]>>
    ELSE <<[id |-> "10"], [id |-> "b"], [id |-> "9"]>>
publicCounts ==
    <<[key |-> "9", value |-> 2], [key |-> "10", value |-> 1],
      [key |-> "b", value |-> 1]>>

\* the dependency array of the spotlight effect
spotlightDeps(zip) == <<hasZip(zip), zip>>

WelcomeOthers ==
    <<nbVars, searchVars, spotVars, regVars, favVars, routeVars, editVars,
      resultsVars, authVars, countVars, clientVars>>

\* loadSpotlight() up to its first await, for user.zipcode = zip
StartSpotlight(zip) ==
    /\ wlSeq' = wlSeq + 1
    /\ wlLoads' = wlLoads \cup
           {[id |-> wlSeq + 1, zip |-> zip,
             phase |-> IF hasZip(zip) THEN "awaitAll" ELSE "awaitCounts",
             top |-> <<>>, dogs |-> <<>>]}
    /\ wlLatest' = wlSeq + 1

\* user.zipcode changes while the page is mounted (loginUser of a profile
\* save that resolved after the user moved on to /welcome): the page
\* renders again and the effect runs when a dependency changed
ZipChanges ==
    /\ wlPc = "mounted"
    /\ wlChanges < MaxZipChanges
    /\ \E zip \in WelcomeZips \ {wlZip} :
          /\ wlZip' = zip
          /\ IF spotlightDeps(zip) # spotlightDeps(wlZip)
             THEN StartSpotlight(zip)
             ELSE UNCHANGED <<wlSeq, wlLoads, wlLatest>>
    /\ wlChanges' = wlChanges + 1
    /\ UNCHANGED <<wlPc, wlSpot, wlSet>>
    /\ UNCHANGED WelcomeOthers

\* a load ends with setSpotlightDogs(ds)
Finish(load, ds) ==
    /\ wlLoads' = wlLoads \ {load}
    /\ wlSpot' = ds
    /\ wlSet' = [id \in DOMAIN wlSet \cup {load.id} |->
                    IF id = load.id THEN ds ELSE wlSet[id]]

\* the Promise.all of the located branch settles
NearYouSettles ==
    /\ \E load \in wlLoads : \E rejected \in BOOLEAN :
          /\ load.phase = "awaitAll"
          /\ IF rejected
             THEN Finish(load, catch.spotlightDogs)
             ELSE Finish(load, leastNearYou(nearby(load.zip), publicCounts))
    /\ UNCHANGED <<wlZip, wlPc, wlSeq, wlLatest, wlChanges>>
    /\ UNCHANGED WelcomeOthers

\* getFavoriteCountsPublic() of the global branch settles
GlobalCountsSettle ==
    /\ \E load \in wlLoads : \E rejected \in BOOLEAN :
          /\ load.phase = "awaitCounts"
          /\ IF rejected
             THEN Finish(load, catch.spotlightDogs)
             ELSE IF Len(ObjectEntries(publicCounts)) = 0
             THEN Finish(load, <<>>)
             ELSE /\ wlLoads' = (wlLoads \ {load}) \cup
                         {[load EXCEPT !.phase = "awaitDog",
                                       !.top = topEntries(publicCounts)]}
                  /\ UNCHANGED <<wlSpot, wlSet>>
    /\ UNCHANGED <<wlZip, wlPc, wlSeq, wlLatest, wlChanges>>
    /\ UNCHANGED WelcomeOthers

\* a getDog(dogId) of the global branch settles: the dog is pushed, and
\* after the last one the list is set
GlobalDogSettles ==
    /\ \E load \in wlLoads : \E rejected \in BOOLEAN :
          /\ load.phase = "awaitDog"
          /\ LET k == Len(load.dogs)
                 ds == Append(load.dogs,
                              [id |-> load.top[k + 1][1],
                               favoriteCount |-> load.top[k + 1][2]])
             IN  IF rejected
                 THEN Finish(load, catch.spotlightDogs)
                 ELSE IF nextFetches(load.top, k + 1) = <<>>
                 THEN Finish(load, ds)
                 ELSE /\ wlLoads' = (wlLoads \ {load}) \cup
                             {[load EXCEPT !.dogs = ds]}
                      /\ UNCHANGED <<wlSpot, wlSet>>
    /\ UNCHANGED <<wlZip, wlPc, wlSeq, wlLatest, wlChanges>>
    /\ UNCHANGED WelcomeOthers

\* the page just mounted for a user, its first load out
InitWelcome ==
    /\ NbIdle
    /\ SearchIdle
    /\ SpotIdle
    /\ RegIdle
    /\ FavIdle
    /\ RouteIdle
    /\ EditIdle
    /\ ResultsIdle
    /\ AuthIdle
    /\ CountsIdle
    /\ ClientIdle
    /\ wlZip \in WelcomeZips
    /\ wlPc = "mounted"
    /\ wlSeq = 1
    /\ wlLoads = {[id |-> 1, zip |-> wlZip,
                   phase |-> IF hasZip(wlZip) THEN "awaitAll"
                             ELSE "awaitCounts",
                   top |-> <<>>, dogs |-> <<>>]}
    /\ wlLatest = 1
    /\ wlSpot = <<>>
    /\ wlSet = <<>>
    /\ wlChanges = 0

NextWelcome ==
    ZipChanges \/ NearYouSettles \/ GlobalCountsSettle \/ GlobalDogSettles

SpecWelcome == InitWelcome /\ [][NextWelcome]_vars

\* ------------------------------------------------------------------------
\* Properties: overlapping spotlight loads
\* ------------------------------------------------------------------------
\* C29: once every spotlight load has returned, the spotlight shown is what
\* the load started last, that of the latest postal code, has set, in
\* whatever order the loads returned.
C29_LatestSpotlightShown ==
    wlLoads = {} => wlSpot = wlSet[wlLatest]

====
